---- MODULE Spec2Model ----
(***************************************************************************)
(* A model of Leaflet's LineUtil (src/src/geometry/LineUtil.js): polyline  *)
(* simplification (vertex reduction + Douglas-Peucker), Cohen-Sutherland    *)
(* segment clipping with its module-level cache _lastCode, the closest     *)
(* point of a segment, isFlat and polylineCenter; and of three pieces of   *)
(* the user interface: Handler (src/src/core/Handler.js) with its subclass *)
(* ScrollWheelZoom (src/src/map/handler/Map.ScrollWheelZoom.js), the       *)
(* opening of popups (Popup.openOn, Map.openPopup, Map.closePopup), the    *)
(* autopan of a popup (Popup._adjustPan), and the draw order and redraw    *)
(* requests of the Canvas renderer.                                        *)
(*                                                                          *)
(* Numbers.  A JavaScript number is modelled as an exact rational <<n, d>>  *)
(* in lowest terms with d > 0; d = 0 encodes the non-finite doubles:        *)
(* <<1, 0>> is Infinity, <<-1, 0>> is -Infinity and <<0, 0>> is NaN.  The   *)
(* rounding error of binary floating point and the sign of zero are not     *)
(* modelled: every property below is a property of the algorithms under     *)
(* exact arithmetic.                                                        *)
(*                                                                          *)
(* Points.  A Point is the pair <<x, y>> of two numbers; the JavaScript     *)
(* value undefined (an out-of-range array read) is the empty tuple.         *)
(*                                                                          *)
(* Arrays.  A JavaScript array is an object with an identity: the heap is   *)
(* a sequence of arrays and an array reference is an index into the heap.   *)
(***************************************************************************)
EXTENDS Integers, Sequences, FiniteSets, TLC

\* ------------------------------------------------------------------ bounds
\* simplify: input points have integer coordinates in 0..MaxX x 0..MaxY,
\* at most MaxLen points, and the tolerance is absent or in 0..MaxTol.
MaxX == 1
MaxY == 4
MaxLen == 4
MaxTol == 3
\* the depth up to which the calls of _simplifyDPStep are followed
MaxDepth == MaxLen + 1
\* clipSegment: the clip rectangle has integer corners in 0..BMax x 0..BMax and
\* the segment's endpoints have integer coordinates in that range widened by one
\* unit on every side; the loop of one call is followed for at most ClipFuel
\* iterations.
BMax == 1
ClipFuel == 6
\* clipSegment with round: the coordinates of the endpoints and of the rectangle
\* are multiples of 1 / Den
Den == 2
\* polylineCenter, isFlat: rings of at most MaxRing points with latitudes and
\* longitudes in 0..GMax
GMax == 2
MaxRing == 3
\* Handler, ScrollWheelZoom: the option wheelDebounceTime in ticks of the clock,
\* which runs from 1 to TMax; at most MaxHooks calls of addHooks and
\* removeHooks, at most MaxTimers timeouts pending, and |_delta| <= DeltaMax
\* Popup: the popups 1..NPopups may be opened on the map
NPopups == 3
\* Popup._adjustPan: the map is MapSize pixels wide; runs of _adjustPan nested
\* in one another are followed up to the depth MaxNest
MapSize == 2
MaxNest == 3
\* Canvas: the layers 1..NLayers may be registered with the renderer, and the
\* browser gives the animation frame handles 1..MaxFrames
NLayers == 3
MaxFrames == 3
wheelDebounceTime == 2
TMax == 6
MaxHooks == 4
MaxTimers == 2
DeltaMax == 120
\* closestPointOnSegment, pointToSegmentDistance: p, p1 and p2 have integer
\* coordinates in 0..QMax x 0..QMax
QMax == 2

VARIABLES
    heap,        \* simplify: the arrays allocated so far (reference = index)
    points,      \* simplify: reference of the array passed as `points`
    tolerance,   \* simplify: <<>> when the argument is absent, <<t>> otherwise
    op,          \* simplify: the function that was called last ("none" before)
    ret,         \* simplify: reference of the array it returned (0 before)
    a,           \* clipSegment: the argument a of the pending or last call
    b,           \* clipSegment: the argument b
    bounds,      \* clipSegment: the argument bounds, [min |-> Point, max |-> Point]
    useLastCode, \* clipSegment: the argument useLastCode of the last call
    round,       \* clipSegment: the argument round of the last call
    _lastCode,   \* the module-level variable _lastCode
    clip,        \* clipSegment: the outcome of the last call (see clipSegment)
    pc,          \* clipSegment: "call" while a call is pending, "return" after it
    cont,        \* clipSegment: the pending or last call continues a chain: its a is
                 \* the b of the previous call of the same polyline
    other,       \* clipSegment: where a second polyline, clipped in turns with the
                 \* current one, stopped (undefined while there is none)
    query,       \* closestPointOnSegment, pointToSegmentDistance: the function
                 \* called ("none" before the call), its arguments and its result
    now,         \* ScrollWheelZoom: the clock (+new Date()), in ticks
    _enabled,    \* Handler: this._enabled ("undefined", "true" or "false")
    hooks,       \* Handler: the calls of addHooks and removeHooks so far, in order
    listening,   \* ScrollWheelZoom: _onWheelScroll is registered for 'wheel'
    _delta,      \* ScrollWheelZoom: this._delta
    _startTime,  \* ScrollWheelZoom: this._startTime (NoTime when undefined or null)
    _timer,      \* ScrollWheelZoom: this._timer, the handle setTimeout returned
                 \* last (NoTimer when undefined)
    timers,      \* the timeouts pending in the browser: handle -> time when due
    wheelSeen,   \* ScrollWheelZoom: a wheel event arrived since addHooks or
                 \* removeHooks ran last (an observation, not a field)
    performed,   \* ScrollWheelZoom: the times at which _performZoom ran, in order
    lastCall,    \* Handler, Map: the method or callback that ran last ("new" before)
    autoClose,   \* Popup: options.autoClose of every popup
    layers,      \* Map: the popups that are layers of the map (the open popups)
    _popup,      \* Map: map._popup (NoPopup when undefined)
    closed,      \* Map: the popups for which the last call fired 'popupclose'
    autoPan,     \* Popup: options.autoPan
    keepInView,  \* Popup: options.keepInView
    opened,      \* Popup: the popup is on the map, its events are registered
    _autopanning, \* Popup: this._autopanning (FALSE when undefined)
    _panAnim,    \* Map: the pan animation map._panAnim is in progress
    panLeft,     \* Map: the offset the pan animation in progress moves the view by
    outside,     \* Popup: the dx _adjustPan computes from the popup's position,
                 \* the distance by which the popup lies outside the padded view
    runs,        \* Popup: the runs of _adjustPan during the last event, in the
                 \* order in which they reached their end (an observation)
    overrun,     \* Popup: the runs of _adjustPan nested deeper than MaxNest
    _map,        \* Canvas: this._map is set, the renderer is on a map
    _ctx,        \* Canvas: this._ctx is set
    _layers,     \* Canvas: the layers registered in this._layers
    _order,      \* Canvas: layer._order of every layer that has one, as
                 \* [prev, next], each a layer or NoLayer
    _drawFirst,  \* Canvas: the layer of this._drawFirst (NoLayer when null or undefined)
    _drawLast,   \* Canvas: the layer of this._drawLast
    _redrawRequest, \* Canvas: this._redrawRequest (NoFrame when null or undefined)
    frames,      \* the animation frames requested from the browser and not yet
                 \* run or cancelled
    _postponeUpdatePaths, \* Canvas: this._postponeUpdatePaths
    drawn,       \* Canvas: what the last call did to the canvas ("none", "draw",
                 \* "redraw", or "TypeError" when it threw)
    called       \* Canvas: the method that ran last, the layer passed to it, and
                 \* whether it returned before its end

simplifyVars == <<heap, points, tolerance, op, ret>>
clipVars == <<a, b, bounds, useLastCode, round, _lastCode, clip, pc, cont, other>>
queryVars == <<query>>
wheelFields ==
    <<now, _enabled, hooks, listening, _delta, _startTime, _timer, timers, wheelSeen,
      performed>>
wheelVars == <<wheelFields, lastCall>>
popupVars == <<autoClose, layers, _popup, closed>>
panVars ==
    <<autoPan, keepInView, opened, _autopanning, _panAnim, panLeft, outside, runs,
      overrun>>
canvasVars ==
    <<_map, _ctx, _layers, _order, _drawFirst, _drawLast, _redrawRequest, frames,
      _postponeUpdatePaths, drawn, called>>
uiVars == <<wheelVars, popupVars, panVars, canvasVars>>
vars == <<simplifyVars, clipVars, queryVars, uiVars>>

\* ----------------------------------------------------------------- numbers
Abs(n) == IF n < 0 THEN -n ELSE n
Sign(n) == IF n < 0 THEN -1 ELSE IF n > 0 THEN 1 ELSE 0

RECURSIVE GCD(_, _)
GCD(u, v) == IF v = 0 THEN u ELSE GCD(v, u % v)

\* the number n / d, d of any sign; x / 0 is +-Infinity and 0 / 0 is NaN
Norm(n, d) ==
    IF d = 0 THEN <<Sign(n), 0>>
    ELSE LET s == IF d < 0 THEN -1 ELSE 1
             g == GCD(Abs(n), Abs(d))
         IN  <<(s * n) \div g, (s * d) \div g>>

Num(k) == <<k, 1>>
NaN == <<0, 0>>
IsFinite(u) == u[2] # 0

RNeg(u) == <<-u[1], u[2]>>
RAdd(u, v) ==
    IF u[2] = 0 /\ v[2] = 0 THEN (IF u = v THEN u ELSE NaN)
    ELSE Norm(u[1] * v[2] + v[1] * u[2], u[2] * v[2])
RSub(u, v) == RAdd(u, RNeg(v))
RMul(u, v) == Norm(u[1] * v[1], u[2] * v[2])
Recip(v) == IF v[1] < 0 THEN <<-v[2], -v[1]>> ELSE <<v[2], v[1]>>
RDiv(u, v) == RMul(u, Recip(v))

\* u < v and u > v as JavaScript compares numbers: false when either is NaN
RLt(u, v) ==
    IF u = NaN \/ v = NaN THEN FALSE
    ELSE IF u[2] = 0 /\ v[2] = 0 THEN u[1] < v[1]
    ELSE u[1] * v[2] < v[1] * u[2]
RGt(u, v) == RLt(v, u)
RLe(u, v) == u # NaN /\ v # NaN /\ ~RLt(v, u)

\* ------------------------------------------------------------------ points
Pt(x, y) == <<Num(x), Num(y)>>
Undefined == <<>>
\* points[i] of a JavaScript array, i counted from 1 here
Get(arr, i) == IF i \in DOMAIN arr THEN arr[i] ELSE Undefined

\* square distance (to avoid unnecessary Math.sqrt calls)
_sqDist(p1, p2) ==
    LET dx == RSub(p2[1], p1[1])
        dy == RSub(p2[2], p1[2])
    IN  RAdd(RMul(dx, dx), RMul(dy, dy))

\* faulty variant of _sqClosestPointOnSegment: the branch `t > 1` is missing
_sqClosestPointOnSegment_NoUpperClamp(p, p1, p2, sqDist) ==
    LET x0  == p1[1]
        y0  == p1[2]
        dx0 == RSub(p2[1], x0)
        dy0 == RSub(p2[2], y0)
        dot == RAdd(RMul(dx0, dx0), RMul(dy0, dy0))
        t   == RDiv(RAdd(RMul(RSub(p[1], x0), dx0), RMul(RSub(p[2], y0), dy0)), dot)
        xy  == IF RGt(dot, Num(0)) /\ RGt(t, Num(0))
               THEN <<RAdd(x0, RMul(dx0, t)), RAdd(y0, RMul(dy0, t))>>
               ELSE <<x0, y0>>
        dx  == RSub(p[1], xy[1])
        dy  == RSub(p[2], xy[2])
    IN  IF sqDist THEN RAdd(RMul(dx, dx), RMul(dy, dy)) ELSE xy

\* faulty variant of _sqClosestPointOnSegment: the test `dot > 0` is missing and
\* the interpolation is the branch taken when t is neither > 1 nor <= 0
_sqClosestPointOnSegment_NoZeroLengthTest(p, p1, p2, sqDist) ==
    LET x0  == p1[1]
        y0  == p1[2]
        dx0 == RSub(p2[1], x0)
        dy0 == RSub(p2[2], y0)
        dot == RAdd(RMul(dx0, dx0), RMul(dy0, dy0))
        t   == RDiv(RAdd(RMul(RSub(p[1], x0), dx0), RMul(RSub(p[2], y0), dy0)), dot)
        xy  == IF RGt(t, Num(1)) THEN <<p2[1], p2[2]>>
               ELSE IF RLe(t, Num(0)) THEN <<x0, y0>>
               ELSE <<RAdd(x0, RMul(dx0, t)), RAdd(y0, RMul(dy0, t))>>
        dx  == RSub(p[1], xy[1])
        dy  == RSub(p[2], xy[2])
    IN  IF sqDist THEN RAdd(RMul(dx, dx), RMul(dy, dy)) ELSE xy

\* return closest point on segment or distance to that point
_sqClosestPointOnSegment(p, p1, p2, sqDist) ==
    LET x0  == p1[1]
        y0  == p1[2]
        dx0 == RSub(p2[1], x0)
        dy0 == RSub(p2[2], y0)
        dot == RAdd(RMul(dx0, dx0), RMul(dy0, dy0))
        t   == RDiv(RAdd(RMul(RSub(p[1], x0), dx0), RMul(RSub(p[2], y0), dy0)), dot)
        xy  == IF RGt(dot, Num(0))
               THEN IF RGt(t, Num(1)) THEN <<p2[1], p2[2]>>
                    ELSE IF RGt(t, Num(0))
                         THEN <<RAdd(x0, RMul(dx0, t)), RAdd(y0, RMul(dy0, t))>>
                         ELSE <<x0, y0>>
               ELSE <<x0, y0>>
        dx  == RSub(p[1], xy[1])
        dy  == RSub(p[2], xy[2])
    IN  IF sqDist THEN RAdd(RMul(dx, dx), RMul(dy, dy)) ELSE xy

\* the divisors of the divisions _sqClosestPointOnSegment executes: the only
\* division is `/ dot`, inside `if (dot > 0)`
_sqClosestPointOnSegment_Divisors(p1, p2) ==
    LET dx0 == RSub(p2[1], p1[1])
        dy0 == RSub(p2[2], p1[2])
        dot == RAdd(RMul(dx0, dx0), RMul(dy0, dy0))
    IN  IF RGt(dot, Num(0)) THEN {dot} ELSE {}

\* Math.sqrt of a number that is not negative: exact when the number is the
\* square of a fraction; otherwise the irrational root of n / d is written as
\* the triple <<n, d, 2>>
IsSquare(n) == \E k \in 0..n : k * k = n
ISqrt(n) == CHOOSE k \in 0..n : k * k = n
MathSqrt(u) ==
    IF ~IsFinite(u) THEN u
    ELSE IF IsSquare(u[1]) /\ IsSquare(u[2]) THEN <<ISqrt(u[1]), ISqrt(u[2])>>
    ELSE <<u[1], u[2], 2>>

\* pointToSegmentDistance(p, p1, p2)
pointToSegmentDistance(p, p1, p2) == MathSqrt(_sqClosestPointOnSegment(p, p1, p2, TRUE))

\* closestPointOnSegment(p, p1, p2): sqDist is not passed (undefined, falsy)
closestPointOnSegment(p, p1, p2) == _sqClosestPointOnSegment(p, p1, p2, FALSE)

\* ---------------------------------------------------------------- simplify
\* a new array holding `elems`: the heap after the allocation and the reference
Alloc(h, elems) == [heap |-> Append(h, elems), ret |-> Len(h) + 1]

\* faulty variant of slice: `return points` in place of `return points.slice()`
slice_Alias(h, pts) == [heap |-> h, ret |-> pts]

\* points.slice()
slice(h, pts) == Alloc(h, h[pts])

\* faulty variant of _reduceLoop: a point is compared with the point before it
\* in the input, not with the last point pushed
RECURSIVE _reduceLoop_ToPredecessor(_, _, _, _)
_reduceLoop_ToPredecessor(arr, sqTolerance, i, prev) ==
    IF i > Len(arr) THEN <<>>
    ELSE IF RGt(_sqDist(arr[i], arr[i - 1]), sqTolerance)
         THEN <<i>> \o _reduceLoop_ToPredecessor(arr, sqTolerance, i + 1, i)
         ELSE _reduceLoop_ToPredecessor(arr, sqTolerance, i + 1, prev)

\* the loop of _reducePoints from index i on (indices from 1): the indices pushed
RECURSIVE _reduceLoop(_, _, _, _)
_reduceLoop(arr, sqTolerance, i, prev) ==
    IF i > Len(arr) THEN <<>>
    ELSE IF RGt(_sqDist(arr[i], arr[prev]), sqTolerance)
         THEN <<i>> \o _reduceLoop(arr, sqTolerance, i + 1, i)
         ELSE _reduceLoop(arr, sqTolerance, i + 1, prev)

\* faulty variant of _reduceKept: the last point is not pushed after the loop
_reduceKept_NoFinalPush(arr, sqTolerance) ==
    <<1>> \o _reduceLoop(arr, sqTolerance, 2, 1)

\* faulty variant of _reduceKept: the last point is pushed after the loop in every case
_reduceKept_AlwaysFinalPush(arr, sqTolerance) ==
    <<1>> \o _reduceLoop(arr, sqTolerance, 2, 1) \o <<Len(arr)>>

\* faulty variant of _reduceKept: reducedPoints starts empty, not as [points[0]]
_reduceKept_NoSeed(arr, sqTolerance) ==
    LET pushed == _reduceLoop(arr, sqTolerance, 2, 1)
        prev   == IF pushed = <<>> THEN 1 ELSE pushed[Len(pushed)]
    IN  pushed \o (IF prev < Len(arr) THEN <<Len(arr)>> ELSE <<>>)

\* the indices whose points _reducePoints pushes, in the order it pushes them
_reduceKept(arr, sqTolerance) ==
    LET pushed == _reduceLoop(arr, sqTolerance, 2, 1)
        prev   == IF pushed = <<>> THEN 1 ELSE pushed[Len(pushed)]
    IN  <<1>> \o pushed \o (IF prev < Len(arr) THEN <<Len(arr)>> ELSE <<>>)

\* reduce points that are too close to each other to a single point
_reducePoints(h, pts, sqTolerance) ==
    LET kept == _reduceKept(h[pts], sqTolerance)
    IN  Alloc(h, [k \in 1..Len(kept) |-> Get(h[pts], kept[k])])

\* faulty variant of _dpScan: `sqDist >= maxSqDist`, the last point at the
\* greatest distance wins
RECURSIVE _dpScan_LastWins(_, _, _, _, _)
_dpScan_LastWins(arr, first, last, i, best) ==
    IF i > last - 1 THEN best
    ELSE LET sqDist == _sqClosestPointOnSegment(arr[i], arr[first], arr[last], TRUE)
         IN  IF ~RLt(sqDist, best[2])
             THEN _dpScan_LastWins(arr, first, last, i + 1, <<i, sqDist>>)
             ELSE _dpScan_LastWins(arr, first, last, i + 1, best)

\* the scan of _simplifyDPStep over first < i < last, from i on: <<index, maxSqDist>>
RECURSIVE _dpScan(_, _, _, _, _)
_dpScan(arr, first, last, i, best) ==
    IF i > last - 1 THEN best
    ELSE LET sqDist == _sqClosestPointOnSegment(arr[i], arr[first], arr[last], TRUE)
         IN  IF RGt(sqDist, best[2])
             THEN _dpScan(arr, first, last, i + 1, <<i, sqDist>>)
             ELSE _dpScan(arr, first, last, i + 1, best)

\* faulty variant of _simplifyDPStep: the span is split when maxSqDist < sqTolerance
RECURSIVE _simplifyDPStep_Inverted(_, _, _, _)
_simplifyDPStep_Inverted(arr, sqTolerance, first, last) ==
    LET m == _dpScan(arr, first, last, first + 1, <<0, Num(0)>>)
    IN  IF m[1] # 0 /\ RLt(m[2], sqTolerance)
        THEN {m[1]} \cup _simplifyDPStep_Inverted(arr, sqTolerance, first, m[1])
                    \cup _simplifyDPStep_Inverted(arr, sqTolerance, m[1], last)
        ELSE {}

\* faulty variant of _simplifyDPStep: the second recursive call, on index..last, is missing
RECURSIVE _simplifyDPStep_LeftOnly(_, _, _, _)
_simplifyDPStep_LeftOnly(arr, sqTolerance, first, last) ==
    LET m == _dpScan(arr, first, last, first + 1, <<0, Num(0)>>)
    IN  IF RGt(m[2], sqTolerance)
        THEN {m[1]} \cup _simplifyDPStep_LeftOnly(arr, sqTolerance, first, m[1])
        ELSE {}

\* faulty variant of _simplifyDPStep: the span is split when maxSqDist >= sqTolerance
RECURSIVE _simplifyDPStep_SplitAtTolerance(_, _, _, _)
_simplifyDPStep_SplitAtTolerance(arr, sqTolerance, first, last) ==
    LET m == _dpScan(arr, first, last, first + 1, <<0, Num(0)>>)
    IN  IF m[1] # 0 /\ ~RLt(m[2], sqTolerance)
        THEN {m[1]} \cup _simplifyDPStep_SplitAtTolerance(arr, sqTolerance, first, m[1])
                    \cup _simplifyDPStep_SplitAtTolerance(arr, sqTolerance, m[1], last)
        ELSE {}

\* the set of indices _simplifyDPStep marks in markers for the span first..last
RECURSIVE _simplifyDPStep(_, _, _, _)
_simplifyDPStep(arr, sqTolerance, first, last) ==
    LET m == _dpScan(arr, first, last, first + 1, <<0, Num(0)>>)
    IN  IF RGt(m[2], sqTolerance)
        THEN {m[1]} \cup _simplifyDPStep(arr, sqTolerance, first, m[1])
                    \cup _simplifyDPStep(arr, sqTolerance, m[1], last)
        ELSE {}

\* faulty variant of _dpSplits: `maxSqDist >= sqTolerance`
_dpSplits_AtTolerance(maxSqDist, sqTolerance) == ~RLt(maxSqDist, sqTolerance)

\* the test `maxSqDist > sqTolerance` that guards the two recursive calls
_dpSplits(maxSqDist, sqTolerance) == RGt(maxSqDist, sqTolerance)

\* the calls of _simplifyDPStep that the call on first..last at recursion depth
\* `depth` makes, itself included; index 0 stands for `index` left undefined.
\* The recursion is followed up to depth MaxDepth, and only into spans that lie
\* inside first..last
RECURSIVE _simplifyDPStepCalls(_, _, _, _, _)
_simplifyDPStepCalls(arr, sqTolerance, first, last, depth) ==
    LET m     == _dpScan(arr, first, last, first + 1, <<0, Num(0)>>)
        split == _dpSplits(m[2], sqTolerance)
        call  == [first |-> first, last |-> last, depth |-> depth,
                  index |-> m[1], split |-> split]
    IN  {call} \cup
        (IF split /\ first < m[1] /\ m[1] < last /\ depth < MaxDepth
         THEN _simplifyDPStepCalls(arr, sqTolerance, first, m[1], depth + 1)
                  \cup _simplifyDPStepCalls(arr, sqTolerance, m[1], last, depth + 1)
         ELSE {})

\* faulty variant of _dpMarkers: markers[len - 1] is not set
_dpMarkers_LastNotMarked(arr, sqTolerance) ==
    ({1} \cap DOMAIN arr) \cup _simplifyDPStep(arr, sqTolerance, 1, Len(arr))

\* the indices of markers that are set when _simplifyDP builds newPoints; the
\* writes markers[0] and markers[len - 1] outside a Uint8Array of length 0 are ignored
_dpMarkers(arr, sqTolerance) ==
    ({1, Len(arr)} \cap DOMAIN arr) \cup _simplifyDPStep(arr, sqTolerance, 1, Len(arr))

\* the loop that builds newPoints: arr[i] for every marked i, from i on
RECURSIVE _dpCollect(_, _, _)
_dpCollect(arr, markers, i) ==
    IF i > Len(arr) THEN <<>>
    ELSE (IF i \in markers THEN <<arr[i]>> ELSE <<>>) \o _dpCollect(arr, markers, i + 1)

\* Ramer-Douglas-Peucker simplification
_simplifyDP(h, pts, sqTolerance) ==
    Alloc(h, _dpCollect(h[pts], _dpMarkers(h[pts], sqTolerance), 1))

\* faulty variant of Falsy: only an absent tolerance skips the simplification
Falsy_AbsentOnly(tol) == tol = <<>>

\* !tolerance: the argument is absent (undefined) or 0
Falsy(tol) == tol = <<>> \/ tol[1] = 0

\* simplify(points, tolerance): vertex reduction, then Douglas-Peucker
simplify(h, pts, tol) ==
    IF Falsy(tol) \/ Len(h[pts]) = 0 THEN slice(h, pts)
    ELSE LET sqTolerance == Num(tol[1] * tol[1])
             reduced     == _reducePoints(h, pts, sqTolerance)
         IN  _simplifyDP(reduced.heap, reduced.ret, sqTolerance)

\* ------------------------------------------------------------- clipSegment
\* the value of `let _lastCode;` before any call has assigned it (undefined)
NoCode == -1

\* an OutCode as the operand of | and & (undefined converts to 0)
ToInt32(c) == IF c = NoCode THEN 0 ELSE c
Bit(c, k) == (ToInt32(c) \div k) % 2
BitAnd(c1, c2) == 1 * (Bit(c1, 1) * Bit(c2, 1)) + 2 * (Bit(c1, 2) * Bit(c2, 2))
                + 4 * (Bit(c1, 4) * Bit(c2, 4)) + 8 * (Bit(c1, 8) * Bit(c2, 8))
BitOr(c1, c2) == ToInt32(c1) + ToInt32(c2) - BitAnd(c1, c2)
\* an OutCode as a condition: undefined and 0 are falsy
Truthy(c) == c # NoCode /\ c # 0

\* Math.round: the nearest integer, halves rounded up; non-finite values as they are
MathRound(x) == IF IsFinite(x) THEN Num((2 * x[1] + x[2]) \div (2 * x[2])) ELSE x

\* new Point(x, y, round)
Point(x, y, rnd) == <<IF rnd THEN MathRound(x) ELSE x, IF rnd THEN MathRound(y) ELSE y>>

\* faulty variant of _getBitCode: a point on the left or bottom edge counts as outside
_getBitCode_EdgeIsOutside(p, bnds) ==
    LET cx == IF RLe(p[1], bnds.min[1]) THEN 1
              ELSE IF RGt(p[1], bnds.max[1]) THEN 2 ELSE 0
        cy == IF RLe(p[2], bnds.min[2]) THEN 4
              ELSE IF RGt(p[2], bnds.max[2]) THEN 8 ELSE 0
    IN  cx + cy

\* faulty variant of _getBitCode: the bits for bottom and top are exchanged
_getBitCode_BottomIsTop(p, bnds) ==
    LET cx == IF RLt(p[1], bnds.min[1]) THEN 1
              ELSE IF RGt(p[1], bnds.max[1]) THEN 2 ELSE 0
        cy == IF RLt(p[2], bnds.min[2]) THEN 8
              ELSE IF RGt(p[2], bnds.max[2]) THEN 4 ELSE 0
    IN  cx + cy

\* the OutCode of p: 1 left, 2 right, 4 bottom, 8 top
_getBitCode(p, bnds) ==
    LET cx == IF RLt(p[1], bnds.min[1]) THEN 1
              ELSE IF RGt(p[1], bnds.max[1]) THEN 2 ELSE 0
        cy == IF RLt(p[2], bnds.min[2]) THEN 4
              ELSE IF RGt(p[2], bnds.max[2]) THEN 8 ELSE 0
    IN  cx + cy

\* faulty variant of _getEdgeIntersection: the left-edge branch interpolates towards max.x
_getEdgeIntersection_LeftUsesMax(pa, pb, code, bnds, rnd) ==
    LET dx == RSub(pb[1], pa[1])
        dy == RSub(pb[2], pa[2])
        mn == bnds.min
        mx == bnds.max
    IN  IF Bit(code, 8) = 1
        THEN Point(RAdd(pa[1], RDiv(RMul(dx, RSub(mx[2], pa[2])), dy)), mx[2], rnd)
        ELSE IF Bit(code, 4) = 1
        THEN Point(RAdd(pa[1], RDiv(RMul(dx, RSub(mn[2], pa[2])), dy)), mn[2], rnd)
        ELSE IF Bit(code, 2) = 1
        THEN Point(mx[1], RAdd(pa[2], RDiv(RMul(dy, RSub(mx[1], pa[1])), dx)), rnd)
        ELSE IF Bit(code, 1) = 1
        THEN Point(mn[1], RAdd(pa[2], RDiv(RMul(dy, RSub(mx[1], pa[1])), dx)), rnd)
        ELSE Point(NaN, NaN, rnd)

\* faulty variant of _getEdgeIntersection: `new Point(x, y)`, round is not passed on
_getEdgeIntersection_NoRound(pa, pb, code, bnds, rnd) ==
    LET dx == RSub(pb[1], pa[1])
        dy == RSub(pb[2], pa[2])
        mn == bnds.min
        mx == bnds.max
    IN  IF Bit(code, 8) = 1
        THEN Point(RAdd(pa[1], RDiv(RMul(dx, RSub(mx[2], pa[2])), dy)), mx[2], FALSE)
        ELSE IF Bit(code, 4) = 1
        THEN Point(RAdd(pa[1], RDiv(RMul(dx, RSub(mn[2], pa[2])), dy)), mn[2], FALSE)
        ELSE IF Bit(code, 2) = 1
        THEN Point(mx[1], RAdd(pa[2], RDiv(RMul(dy, RSub(mx[1], pa[1])), dx)), FALSE)
        ELSE IF Bit(code, 1) = 1
        THEN Point(mn[1], RAdd(pa[2], RDiv(RMul(dy, RSub(mn[1], pa[1])), dx)), FALSE)
        ELSE Point(NaN, NaN, FALSE)

\* the point where the segment pa-pb crosses the edge of bnds that `code` names
\* (x and y stay undefined when code has none of the four bits: NaN here)
_getEdgeIntersection(pa, pb, code, bnds, rnd) ==
    LET dx == RSub(pb[1], pa[1])
        dy == RSub(pb[2], pa[2])
        mn == bnds.min
        mx == bnds.max
    IN  IF Bit(code, 8) = 1
        THEN Point(RAdd(pa[1], RDiv(RMul(dx, RSub(mx[2], pa[2])), dy)), mx[2], rnd)
        ELSE IF Bit(code, 4) = 1
        THEN Point(RAdd(pa[1], RDiv(RMul(dx, RSub(mn[2], pa[2])), dy)), mn[2], rnd)
        ELSE IF Bit(code, 2) = 1
        THEN Point(mx[1], RAdd(pa[2], RDiv(RMul(dy, RSub(mx[1], pa[1])), dx)), rnd)
        ELSE IF Bit(code, 1) = 1
        THEN Point(mn[1], RAdd(pa[2], RDiv(RMul(dy, RSub(mn[1], pa[1])), dx)), rnd)
        ELSE Point(NaN, NaN, rnd)

\* the `while (true)` loop of clipSegment after n iterations, in which the local
\* a (b) was rebound to a new Point iff newA (newB). The outcome:
\* returned is FALSE when the loop is still running after ClipFuel iterations;
\* ret is <<a', b'>> for the returned pair and <<>> for the returned `false`;
\* steps is the number of edge intersections computed;
\* fresh tells for a and for b whether the local names a Point made by the loop
\* and not the object the caller passed.
RECURSIVE _clipLoop(_, _, _, _, _, _, _, _, _)
_clipLoop(pa, pb, codeA, codeB, bnds, rnd, n, newA, newB) ==
    IF BitOr(codeA, codeB) = 0
    THEN [returned |-> TRUE, ret |-> <<pa, pb>>, steps |-> n, fresh |-> <<newA, newB>>]
    ELSE IF BitAnd(codeA, codeB) # 0
    THEN [returned |-> TRUE, ret |-> <<>>, steps |-> n, fresh |-> <<newA, newB>>]
    ELSE IF n >= ClipFuel
    THEN [returned |-> FALSE, ret |-> <<>>, steps |-> n, fresh |-> <<newA, newB>>]
    ELSE LET codeOut == IF Truthy(codeA) THEN codeA ELSE codeB
             p       == _getEdgeIntersection(pa, pb, codeOut, bnds, rnd)
             newCode == _getBitCode(p, bnds)
         IN  IF codeOut = codeA
             THEN _clipLoop(p, pb, newCode, codeB, bnds, rnd, n + 1, TRUE, newB)
             ELSE _clipLoop(pa, p, codeA, newCode, bnds, rnd, n + 1, newA, TRUE)

\* faulty variant of clipSegment: with round set the endpoints are rounded on entry
clipSegment_RoundsEndpoints(pa, pb, bnds, use, rnd, lastCode) ==
    LET codeA == IF use THEN lastCode ELSE _getBitCode(pa, bnds)
        codeB == _getBitCode(pb, bnds)
    IN  [out |-> _clipLoop(Point(pa[1], pa[2], rnd), Point(pb[1], pb[2], rnd),
                           codeA, codeB, bnds, rnd, 0, FALSE, FALSE),
         lastCode |-> codeB]

\* faulty variant of clipSegment: the code saved for the next segment is codeA
clipSegment_CachesCodeA(pa, pb, bnds, use, rnd, lastCode) ==
    LET codeA == IF use THEN lastCode ELSE _getBitCode(pa, bnds)
        codeB == _getBitCode(pb, bnds)
    IN  [out |-> _clipLoop(pa, pb, codeA, codeB, bnds, rnd, 0, FALSE, FALSE),
         lastCode |-> codeA]

\* faulty variant of clipSegment: _lastCode is assigned when the loop is left, from
\* the local b, which may be a clipped replacement of the argument
clipSegment_CachesClippedB(pa, pb, bnds, use, rnd, lastCode) ==
    LET codeA == IF use THEN lastCode ELSE _getBitCode(pa, bnds)
        codeB == _getBitCode(pb, bnds)
        out   == _clipLoop(pa, pb, codeA, codeB, bnds, rnd, 0, FALSE, FALSE)
    IN  [out |-> out,
         lastCode |-> IF out.ret = <<>> THEN codeB ELSE _getBitCode(out.ret[2], bnds)]

\* faulty variant of clipSegment: the saved code is taken whenever there is one
clipSegment_TakesSavedCode(pa, pb, bnds, use, rnd, lastCode) ==
    LET codeA == IF use \/ lastCode # NoCode THEN lastCode ELSE _getBitCode(pa, bnds)
        codeB == _getBitCode(pb, bnds)
    IN  [out |-> _clipLoop(pa, pb, codeA, codeB, bnds, rnd, 0, FALSE, FALSE),
         lastCode |-> codeB]

\* clipSegment(a, b, bounds, useLastCode, round) when _lastCode holds lastCode:
\* the outcome of the loop and the value it leaves in _lastCode
clipSegment(pa, pb, bnds, use, rnd, lastCode) ==
    LET codeA == IF use THEN lastCode ELSE _getBitCode(pa, bnds)
        codeB == _getBitCode(pb, bnds)
    IN  [out |-> _clipLoop(pa, pb, codeA, codeB, bnds, rnd, 0, FALSE, FALSE),
         lastCode |-> codeB]

\* the divisor of the interpolation _getEdgeIntersection does for `code`: dy for
\* the top and bottom edges, dx for the right and left ones (none without a bit)
_getEdgeIntersectionDivisor(pa, pb, code) ==
    IF Bit(code, 8) = 1 \/ Bit(code, 4) = 1 THEN {RSub(pb[2], pa[2])}
    ELSE IF Bit(code, 2) = 1 \/ Bit(code, 1) = 1 THEN {RSub(pb[1], pa[1])}
    ELSE {}

\* the divisors of the edge intersections that the loop of clipSegment computes
\* from its n-th iteration on, as _clipLoop runs it
RECURSIVE _clipLoopDivisors(_, _, _, _, _, _, _)
_clipLoopDivisors(pa, pb, codeA, codeB, bnds, rnd, n) ==
    IF BitOr(codeA, codeB) = 0 \/ BitAnd(codeA, codeB) # 0 \/ n >= ClipFuel
    THEN {}
    ELSE LET codeOut == IF Truthy(codeA) THEN codeA ELSE codeB
             p       == _getEdgeIntersection(pa, pb, codeOut, bnds, rnd)
             newCode == _getBitCode(p, bnds)
         IN  _getEdgeIntersectionDivisor(pa, pb, codeOut) \cup
             (IF codeOut = codeA
              THEN _clipLoopDivisors(p, pb, newCode, codeB, bnds, rnd, n + 1)
              ELSE _clipLoopDivisors(pa, p, codeA, newCode, bnds, rnd, n + 1))

\* the divisors of the edge intersections of one call of clipSegment
clipSegmentDivisors(pa, pb, bnds, use, rnd, lastCode) ==
    LET codeA == IF use THEN lastCode ELSE _getBitCode(pa, bnds)
        codeB == _getBitCode(pb, bnds)
    IN  _clipLoopDivisors(pa, pb, codeA, codeB, bnds, rnd, 0)

\* ------------------------------------------------- isFlat, polylineCenter
\* The arguments of the geographic functions are JavaScript values of several
\* types, written [type, val]: a LatLng object holds <<lat, lng>>, an Array its
\* elements, a number its value; undefined stands for an absent argument too.
LL(lat, lng) == [type |-> "LatLng", val |-> <<Num(lat), Num(lng)>>]
Arr(elems) == [type |-> "Array", val |-> elems]
NumV(k) == [type |-> "number", val |-> Num(k)]
Undef == [type |-> "undefined", val |-> <<>>]
Null == [type |-> "null", val |-> <<>>]

\* Array.isArray(v), v[i] (i from 0) and typeof v
IsArray(v) == v.type = "Array"
Elem(v, i) == IF IsArray(v) /\ (i + 1) \in DOMAIN v.val THEN v.val[i + 1] ELSE Undef
TypeOf(v) == IF v.type \in {"number", "undefined"} THEN v.type ELSE "object"

\* faulty variant of isFlat: the test `typeof latlngs[0][0] !== 'undefined'` is missing
isFlat_EmptyRingIsFlat(latlngs) ==
    \/ ~IsArray(Elem(latlngs, 0))
    \/ TypeOf(Elem(Elem(latlngs, 0), 0)) # "object"

\* Returns true if `latlngs` is a flat array, false is nested.
isFlat(latlngs) ==
    \/ ~IsArray(Elem(latlngs, 0))
    \/ /\ TypeOf(Elem(Elem(latlngs, 0), 0)) # "object"
       /\ TypeOf(Elem(Elem(latlngs, 0), 0)) # "undefined"

\* new LatLng(v) for a LatLng or an array [lat, lng]: the pair <<lat, lng>>
ToLatLng(v) == IF v.type = "LatLng" THEN v.val ELSE <<v.val[1].val, v.val[2].val>>

\* new LatLngBounds(latlngs): the corners of the smallest box around the points
SetMin(S) == CHOOSE u \in S : \A v \in S : RLe(u, v)
SetMax(S) == CHOOSE u \in S : \A v \in S : RLe(v, u)
LatLngBounds(lls) ==
    LET lats == {lls[i][1] : i \in DOMAIN lls}
        lngs == {lls[i][2] : i \in DOMAIN lls}
    IN  [south |-> SetMin(lats), north |-> SetMax(lats),
         west |-> SetMin(lngs), east |-> SetMax(lngs)]

\* LatLng.distanceTo between two corners of a box: LatScale units of distance
\* for one unit of latitude and LngScale for one unit of longitude (a degree of
\* longitude is shorter than a degree of latitude away from the equator)
LatScale == 34
LngScale == 25
GeoDistance(l1, l2) ==
    MathSqrt(RAdd(RMul(Num(LatScale * LatScale), RMul(RSub(l1[1], l2[1]), RSub(l1[1], l2[1]))),
                  RMul(Num(LngScale * LngScale), RMul(RSub(l1[2], l2[2]), RSub(l1[2], l2[2])))))

\* centroid(latlngs) of PolyUtil: the mean of the points
RECURSIVE SumFrom(_, _, _)
SumFrom(lls, k, i) ==
    IF i > Len(lls) THEN Num(0) ELSE RAdd(lls[i][k], SumFrom(lls, k, i + 1))
centroid(lls) ==
    <<RDiv(SumFrom(lls, 1, 1), Num(Len(lls))), RDiv(SumFrom(lls, 2, 1), Num(Len(lls)))>>

\* crs.project and crs.unproject of the caller's CRS: a plate carree of scale k
project(crs, ll) == <<RMul(Num(crs.k), ll[2]), RMul(Num(crs.k), ll[1])>>
unproject(crs, pt) == <<RDiv(pt[2], Num(crs.k)), RDiv(pt[1], Num(crs.k))>>

\* Point.distanceTo
distanceTo(p1, p2) == MathSqrt(_sqDist(p1, p2))

\* the loop that sums halfDist, from index i on (indices from 1)
RECURSIVE _halfDist(_, _)
_halfDist(pts, i) ==
    IF i > Len(pts) - 1 THEN Num(0)
    ELSE RAdd(RDiv(distanceTo(pts[i], pts[i + 1]), Num(2)), _halfDist(pts, i + 1))

\* faulty variant of _centerWalk: the overshoot is measured from p1, not back from p2
RECURSIVE _centerWalk_FromP1(_, _, _, _)
_centerWalk_FromP1(pts, halfDist, i, dist) ==
    IF i > Len(pts) - 1 THEN Undefined
    ELSE LET p1      == pts[i]
             p2      == pts[i + 1]
             segDist == distanceTo(p1, p2)
             dist2   == RAdd(dist, segDist)
         IN  IF RGt(dist2, halfDist)
             THEN LET ratio == RDiv(RSub(dist2, halfDist), segDist)
                  IN  <<RAdd(p1[1], RMul(ratio, RSub(p2[1], p1[1]))),
                        RAdd(p1[2], RMul(ratio, RSub(p2[2], p1[2])))>>
             ELSE _centerWalk_FromP1(pts, halfDist, i + 1, dist2)

\* the loop that walks the segments from index i on with `dist` accumulated:
\* the center, or undefined when the loop ends without assigning it
RECURSIVE _centerWalk(_, _, _, _)
_centerWalk(pts, halfDist, i, dist) ==
    IF i > Len(pts) - 1 THEN Undefined
    ELSE LET p1      == pts[i]
             p2      == pts[i + 1]
             segDist == distanceTo(p1, p2)
             dist2   == RAdd(dist, segDist)
         IN  IF RGt(dist2, halfDist)
             THEN LET ratio == RDiv(RSub(dist2, halfDist), segDist)
                  IN  <<RSub(p2[1], RMul(ratio, RSub(p2[1], p1[1]))),
                        RSub(p2[2], RMul(ratio, RSub(p2[2], p1[2])))>>
             ELSE _centerWalk(pts, halfDist, i + 1, dist2)

\* what a call of polylineCenter leaves: whether it threw and which error, the
\* number of console.warn calls, the number of calls of crs.project and
\* crs.unproject, the projected points, the planar center and the LatLng
\* returned as <<lat, lng>>
Thrown(err, warned) ==
    [threw |-> TRUE, error |-> err, warnings |-> warned, crsCalls |-> 0,
     points |-> <<>>, center |-> Undefined, value |-> Undefined]

\* rings whose first ring is empty: latlngs[0] is an array without elements
EmptyFirstRing(latlngs) ==
    IsArray(latlngs) /\ IsArray(Elem(latlngs, 0)) /\ Len(Elem(latlngs, 0).val) = 0

\* what polylineCenter leaves when it goes on with a ring without points and
\* nothing throws: points is empty, center stays undefined and the LatLng
\* returned holds no numbers
Degenerate(warned) ==
    [threw |-> FALSE, error |-> "none", warnings |-> warned, crsCalls |-> 1,
     points |-> <<>>, center |-> Undefined, value |-> <<NaN, NaN>>]

\* the divisors of the divisions of the walk from index i on: `/ segDist` is
\* executed once, in the iteration where dist exceeds halfDist
RECURSIVE _walkDivisors(_, _, _, _)
_walkDivisors(pts, halfDist, i, dist) ==
    IF i > Len(pts) - 1 THEN {}
    ELSE LET segDist == distanceTo(pts[i], pts[i + 1])
             dist2   == RAdd(dist, segDist)
         IN  IF RGt(dist2, halfDist) THEN {segDist}
             ELSE _walkDivisors(pts, halfDist, i + 1, dist2)

\* the divisors of all the divisions of lines 272 to 295: `/ 2` for every
\* segment, and those of the walk, which is skipped when halfDist is 0
_centerDivisors(pts) ==
    (IF Len(pts) > 1 THEN {Num(2)} ELSE {})
    \cup (IF _halfDist(pts, 1) = Num(0) THEN {}
          ELSE _walkDivisors(pts, _halfDist(pts, 1), 1, Num(0)))

\* areaBounds: the product of the lengths of the west and north sides of the
\* box around the points
_areaBounds(lls) ==
    LET box == LatLngBounds(lls)
    IN  RMul(GeoDistance(<<box.north, box.west>>, <<box.south, box.west>>),
             GeoDistance(<<box.north, box.east>>, <<box.north, box.west>>))

\* faulty variant of _shiftOrigin: `areaBounds <= 1700`
_shiftOrigin_AtThreshold(lls) ==
    IF RLe(_areaBounds(lls), Num(1700)) THEN centroid(lls) ELSE <<Num(0), Num(0)>>

\* centroidLatLng: [0, 0], replaced by centroid(latlngs) if areaBounds < 1700
_shiftOrigin(lls) ==
    IF RLt(_areaBounds(lls), Num(1700)) THEN centroid(lls) ELSE <<Num(0), Num(0)>>

\* faulty variant of _addOrigin: the shift origin is not added back
_addOrigin_Forgotten(latlngCenter, centroidLatLng) == latlngCenter

\* the LatLng returned: the unprojected center plus the shift origin
_addOrigin(latlngCenter, centroidLatLng) ==
    <<RAdd(latlngCenter[1], centroidLatLng[1]), RAdd(latlngCenter[2], centroidLatLng[2])>>

\* faulty variant of _warnings: console.warn is never called
_warnings_Silent(latlngs) == 0

\* the number of console.warn calls of polylineCenter: one if latlngs is not flat
_warnings(latlngs) == IF isFlat(latlngs) THEN 0 ELSE 1

\* polylineCenter from line 250 on, for a non-empty ring or rings with a
\* non-empty first ring
_centerOfRing(latlngs, crs) ==
    LET ring == IF isFlat(latlngs) THEN latlngs ELSE Elem(latlngs, 0)
        lls  == [i \in DOMAIN ring.val |-> ToLatLng(ring.val[i])]
        centroidLatLng == _shiftOrigin(lls)
        pts  == [i \in DOMAIN lls |->
                    project(crs, <<RSub(lls[i][1], centroidLatLng[1]),
                                   RSub(lls[i][2], centroidLatLng[2])>>)]
        halfDist == _halfDist(pts, 1)
        center == IF halfDist = Num(0) THEN pts[1]
                  ELSE _centerWalk(pts, halfDist, 1, Num(0))
        latlngCenter == unproject(crs, center)
    IN  [threw |-> FALSE, error |-> "none", warnings |-> _warnings(latlngs),
         crsCalls |-> Len(pts) + 1, points |-> pts, center |-> center,
         value |-> _addOrigin(latlngCenter, centroidLatLng)]

\* faulty variant of polylineCenter: the test `latlngs.length === 0` is missing
polylineCenter_NoEmptyTest(latlngs, crs) ==
    IF latlngs \in {Undef, Null} THEN Thrown("latlngs not passed", 0)
    ELSE IF Len(latlngs.val) = 0 THEN Degenerate(0)
    ELSE _centerOfRing(latlngs, crs)

\* polylineCenter(latlngs, crs) for latlngs absent, empty, a non-empty ring or
\* rings with a non-empty first ring
polylineCenter(latlngs, crs) ==
    IF latlngs \in {Undef, Null} \/ Len(latlngs.val) = 0
    THEN Thrown("latlngs not passed", 0)
    ELSE _centerOfRing(latlngs, crs)

\* every outcome of polylineCenter(latlngs, crs). For rings with an empty first
\* ring the test of line 246 passes (latlngs.length is 1), the warning is
\* emitted and the empty ring goes to new LatLngBounds, centroid, new Point
\* (undefined) and crs.unproject, none of which is written for no point (the
\* box has no corner, center stays undefined): one of them throws its own
\* error, or the call returns a LatLng that is not a number pair.
polylineCenterOutcomes(latlngs, crs) ==
    IF EmptyFirstRing(latlngs)
    THEN {Thrown("TypeError", 1), Degenerate(1)}
    ELSE {polylineCenter(latlngs, crs)}

\* ------------------------------------------------ the simplify state machine
Coords == {Pt(x, y) : x \in 0..MaxX, y \in 0..MaxY}
RECURSIVE SeqsUpTo(_, _)
SeqsUpTo(S, n) ==
    IF n = 0 THEN {<<>>}
    ELSE LET shorter == SeqsUpTo(S, n - 1)
         IN  shorter \cup {Append(q, e) : q \in {r \in shorter : Len(r) = n - 1}, e \in S}
Inputs == SeqsUpTo(Coords, MaxLen)
Tolerances == {<<>>} \cup {<<t>> : t \in 0..MaxTol}

\* _startTime while it holds no time, _timer while it holds no handle,
\* map._popup while it holds no popup
NoTime == -1
NoTimer == 0
NoPopup == 0
\* _drawFirst, _drawLast, prev and next while they hold no layer, and
\* _redrawRequest while it holds no handle
NoLayer == 0
NoFrame == 0

\* no handler and no popup in use
WheelIdle ==
    /\ now = 0 /\ _enabled = "undefined" /\ hooks = <<>> /\ listening = FALSE
    /\ _delta = 0 /\ _startTime = NoTime /\ _timer = NoTimer /\ timers = <<>>
    /\ wheelSeen = FALSE /\ performed = <<>> /\ lastCall = "new"
PopupIdle == autoClose = <<>> /\ layers = {} /\ _popup = NoPopup /\ closed = {}
PanIdle ==
    /\ autoPan = FALSE /\ keepInView = FALSE /\ opened = FALSE
    /\ _autopanning = FALSE /\ _panAnim = FALSE /\ panLeft = Num(0)
    /\ outside = Num(0) /\ runs = <<>> /\ overrun = FALSE
CanvasIdle ==
    /\ _map = FALSE /\ _ctx = FALSE /\ _layers = {} /\ _order = <<>>
    /\ _drawFirst = NoLayer /\ _drawLast = NoLayer
    /\ _redrawRequest = NoFrame /\ frames = {}
    /\ _postponeUpdatePaths = FALSE /\ drawn = "none"
    /\ called = [fn |-> "new", layer |-> NoLayer, early |-> FALSE]
UiIdle == WheelIdle /\ PopupIdle /\ PanIdle /\ CanvasIdle

\* the value of clip while no call of clipSegment has returned
NoClip == [returned |-> FALSE, ret |-> <<>>, steps |-> 0, fresh |-> <<FALSE, FALSE>>]

\* no clipSegment call is pending and none was made
ClipIdle ==
    /\ a = Undefined /\ b = Undefined /\ bounds = Undefined
    /\ useLastCode = FALSE /\ round = FALSE
    /\ _lastCode = NoCode /\ clip = NoClip /\ pc = "idle"
    /\ cont = FALSE /\ other = Undefined

\* the value of query while no caller holds arguments for a query
NoQuery == [fn |-> "none", args |-> <<>>, result |-> Undefined]
QueryIdle == query = NoQuery

\* a caller holds one array of points and a tolerance; nothing was called yet
Init ==
    /\ \E arr \in Inputs : heap = <<arr>>
    /\ points = 1
    /\ tolerance \in Tolerances
    /\ op = "none"
    /\ ret = 0
    /\ ClipIdle /\ QueryIdle /\ UiIdle

\* the caller calls simplify(points, tolerance)
CallSimplify ==
    /\ op = "none"
    /\ \E r \in {simplify(heap, points, tolerance)} : heap' = r.heap /\ ret' = r.ret
    /\ op' = "simplify"
    /\ UNCHANGED <<points, tolerance, clipVars, queryVars, uiVars>>

\* the stage _reducePoints(points, tolerance * tolerance) taken alone
CallReducePoints ==
    /\ op = "none"
    /\ tolerance # <<>>
    /\ \E r \in {_reducePoints(heap, points, Num(tolerance[1] * tolerance[1]))} : heap' = r.heap /\ ret' = r.ret
    /\ op' = "_reducePoints"
    /\ UNCHANGED <<points, tolerance, clipVars, queryVars, uiVars>>

\* the stage _simplifyDP(points, tolerance * tolerance) taken alone
CallSimplifyDP ==
    /\ op = "none"
    /\ tolerance # <<>>
    /\ \E r \in {_simplifyDP(heap, points, Num(tolerance[1] * tolerance[1]))} : heap' = r.heap /\ ret' = r.ret
    /\ op' = "_simplifyDP"
    /\ UNCHANGED <<points, tolerance, clipVars, queryVars, uiVars>>

Next == CallSimplify \/ CallReducePoints \/ CallSimplifyDP

Spec == Init /\ [][Next]_vars

\* ------------------------------------------- the clipSegment state machine
ClipCoords == (0 - 1)..(BMax + 1)
ClipPoints == {Pt(x, y) : x \in ClipCoords, y \in ClipCoords}
BoundsSet ==
    {[min |-> Pt(x1, y1), max |-> Pt(x2, y2)] :
        x1 \in 0..BMax, x2 \in 0..BMax, y1 \in 0..BMax, y2 \in 0..BMax}
    \ {bnds \in {[min |-> Pt(x1, y1), max |-> Pt(x2, y2)] :
                    x1 \in 0..BMax, x2 \in 0..BMax, y1 \in 0..BMax, y2 \in 0..BMax} :
          RGt(bnds.min[1], bnds.max[1]) \/ RGt(bnds.min[2], bnds.max[2])}

\* simplify is not in use
SimplifyIdle ==
    heap = <<>> /\ points = 0 /\ tolerance = <<>> /\ op = "none" /\ ret = 0

\* the module was just loaded (_lastCode unassigned); a caller is about to clip
\* the segment a-b by bounds
InitClip ==
    /\ a \in ClipPoints /\ b \in ClipPoints /\ bounds \in BoundsSet
    /\ useLastCode = FALSE /\ round = FALSE
    /\ _lastCode = NoCode /\ clip = NoClip /\ pc = "call"
    /\ cont = FALSE /\ other = Undefined
    /\ SimplifyIdle /\ QueryIdle /\ UiIdle

\* the caller calls clipSegment(a, b, bounds, use, rnd)
ClipSegment(use, rnd) ==
    /\ pc = "call"
    /\ \E r \in {clipSegment(a, b, bounds, use, rnd, _lastCode)} :
           clip' = r.out /\ _lastCode' = r.lastCode
    /\ useLastCode' = use /\ round' = rnd
    /\ pc' = "return"
    /\ UNCHANGED <<a, b, bounds, cont, other, simplifyVars, queryVars, uiVars>>

\* the caller goes on to the next segment of the same polyline: it starts where
\* the last one ended and is clipped by the same bounds
NextSegment(nb) ==
    /\ pc = "return" /\ clip.returned
    /\ a' = b /\ b' = nb
    /\ useLastCode' = FALSE /\ round' = FALSE /\ clip' = NoClip
    /\ pc' = "call" /\ cont' = TRUE
    /\ UNCHANGED <<bounds, _lastCode, other, simplifyVars, queryVars, uiVars>>

NextClip ==
    \/ \E use \in BOOLEAN, rnd \in BOOLEAN : ClipSegment(use, rnd)
    \/ \E nb \in ClipPoints : NextSegment(nb)

SpecClip == InitClip /\ [][NextClip]_vars

\* ------------------------------------ two polylines clipped in turns
\* the caller leaves the current polyline where it is and starts a second one,
\* clipped by the same bounds, with the segment na-nb
StartChain(na, nb) ==
    /\ pc = "return" /\ clip.returned /\ other = Undefined
    /\ a' = na /\ b' = nb
    /\ cont' = FALSE
    /\ other' = b
    /\ useLastCode' = FALSE /\ round' = FALSE /\ clip' = NoClip
    /\ pc' = "call"
    /\ UNCHANGED <<bounds, _lastCode, simplifyVars, queryVars, uiVars>>

\* the caller leaves the current polyline where it is and goes on with the
\* other one, from the point where that one stopped
ResumeChain(nb) ==
    /\ pc = "return" /\ clip.returned /\ other # Undefined
    /\ a' = other /\ b' = nb
    /\ cont' = TRUE
    /\ other' = b
    /\ useLastCode' = FALSE /\ round' = FALSE /\ clip' = NoClip
    /\ pc' = "call"
    /\ UNCHANGED <<bounds, _lastCode, simplifyVars, queryVars, uiVars>>

\* as InitClip, for the one rectangle (0, 0)-(BMax, BMax)
InitChains ==
    /\ a \in ClipPoints /\ b \in ClipPoints
    /\ bounds = [min |-> Pt(0, 0), max |-> Pt(BMax, BMax)]
    /\ useLastCode = FALSE /\ round = FALSE
    /\ _lastCode = NoCode /\ clip = NoClip /\ pc = "call"
    /\ cont = FALSE /\ other = Undefined
    /\ SimplifyIdle /\ QueryIdle /\ UiIdle

NextChains ==
    \/ \E use \in BOOLEAN, rnd \in BOOLEAN : ClipSegment(use, rnd)
    \/ \E nb \in ClipPoints : NextSegment(nb)
    \/ \E na \in ClipPoints, nb \in ClipPoints : StartChain(na, nb)
    \/ \E nb \in ClipPoints : ResumeChain(nb)

SpecChains == InitChains /\ [][NextChains]_vars

\* ------------------- closestPointOnSegment and pointToSegmentDistance
QueryPoints == {Pt(x, y) : x \in 0..QMax, y \in 0..QMax}

\* a caller holds a point p and a segment p1-p2; nothing was called yet
InitClosest ==
    /\ \E p \in QueryPoints, p1 \in QueryPoints, p2 \in QueryPoints :
           query = [fn |-> "none", args |-> <<p, p1, p2>>, result |-> Undefined]
    /\ SimplifyIdle /\ ClipIdle /\ UiIdle

\* the caller calls closestPointOnSegment(p, p1, p2)
CallClosestPointOnSegment ==
    /\ query.fn = "none" /\ Len(query.args) = 3
    /\ query' = [query EXCEPT
                     !.fn = "closestPointOnSegment",
                     !.result = closestPointOnSegment(query.args[1], query.args[2], query.args[3])]
    /\ UNCHANGED <<simplifyVars, clipVars, uiVars>>

\* the caller calls pointToSegmentDistance(p, p1, p2)
CallPointToSegmentDistance ==
    /\ query.fn = "none" /\ Len(query.args) = 3
    /\ query' = [query EXCEPT
                     !.fn = "pointToSegmentDistance",
                     !.result = pointToSegmentDistance(query.args[1], query.args[2], query.args[3])]
    /\ UNCHANGED <<simplifyVars, clipVars, uiVars>>

NextClosest == CallClosestPointOnSegment \/ CallPointToSegmentDistance

SpecClosest == InitClosest /\ [][NextClosest]_vars

\* ---------------------------------- calls of all the functions in turns
\* the caller calls isFlat(latlngs)
CallIsFlat ==
    /\ query.fn = "none" /\ Len(query.args) = 1
    /\ query' = [query EXCEPT !.fn = "isFlat", !.result = isFlat(query.args[1])]
    /\ UNCHANGED <<simplifyVars, clipVars, uiVars>>

\* the caller calls polylineCenter(latlngs, crs)
CallPolylineCenter ==
    /\ query.fn = "none" /\ Len(query.args) = 2
    /\ \E r \in polylineCenterOutcomes(query.args[1], query.args[2]) :
           query' = [query EXCEPT !.fn = "polylineCenter", !.result = r]
    /\ UNCHANGED <<simplifyVars, clipVars, uiVars>>

\* the caller, done with its last query if it made one, gets the arguments of
\* the next one ready
Ask(args) ==
    /\ query = NoQuery \/ query.fn # "none"
    /\ query' = [fn |-> "none", args |-> args, result |-> Undefined]
    /\ UNCHANGED <<simplifyVars, clipVars, uiVars>>

\* a point left of the rectangle (0, 0)-(BMax, BMax), one inside it and one right of it
FramePoints == {Pt(0 - 1, 0), Pt(0, 0), Pt(BMax + 1, BMax)}
\* a ring of LatLng objects, a ring of [lat, lng] pairs, and the absent, empty
\* and nested arguments
RingOfLatLng == Arr(<<LL(0, 0), LL(0, 2)>>)
RingOfPairs ==
    Arr(<<Arr(<<NumV(0), NumV(0)>>), Arr(<<NumV(0), NumV(2)>>), Arr(<<NumV(2), NumV(2)>>)>>)
GeoArgs == {Undef, Null, Arr(<<>>), RingOfLatLng, RingOfPairs, Arr(<<RingOfLatLng>>)}
FrameQueries ==
    {<<p, Pt(0, 0), Pt(BMax + 1, BMax)>> : p \in FramePoints}
    \cup {<<l>> : l \in GeoArgs \ {Undef, Null}}
    \cup {<<l, crs>> : l \in GeoArgs, crs \in {[k |-> 1], [k |-> 2]}}

\* a caller holds a segment to clip, a polyline to simplify and no query yet
InitFrame ==
    /\ a \in FramePoints /\ b \in FramePoints
    /\ bounds = [min |-> Pt(0, 0), max |-> Pt(BMax, BMax)]
    /\ useLastCode = FALSE /\ round = FALSE
    /\ _lastCode = NoCode /\ clip = NoClip /\ pc = "call"
    /\ cont = FALSE /\ other = Undefined
    /\ \E mid \in {Pt(0, 1), Pt(MaxX, 1)} : heap = <<<<Pt(0, 0), mid, Pt(0, 2)>>>>
    /\ points = 1 /\ tolerance = <<1>> /\ op = "none" /\ ret = 0
    /\ QueryIdle /\ UiIdle

NextFrame ==
    \/ \E use \in BOOLEAN, rnd \in BOOLEAN : ClipSegment(use, rnd)
    \/ \E nb \in FramePoints : NextSegment(nb)
    \/ CallSimplify
    \/ \E args \in FrameQueries : Ask(args)
    \/ CallClosestPointOnSegment
    \/ CallPointToSegmentDistance
    \/ CallIsFlat
    \/ CallPolylineCenter

SpecFrame == InitFrame /\ [][NextFrame]_vars

\* ------------------------------------------------ polylineCenter and isFlat
\* the points of a ring: latitudes and longitudes on the grid 0..GMax
GeoPoints == {Pt(lat, lng) : lat \in 0..GMax, lng \in 0..GMax}
\* the sequences of 1 to MaxRing points whose consecutive points have the same
\* latitude or the same longitude (every segment then has a rational length)
RECURSIVE GeoPathsUpTo(_)
GeoPathsUpTo(n) ==
    IF n = 1 THEN {<<e>> : e \in GeoPoints}
    ELSE LET shorter == GeoPathsUpTo(n - 1)
         IN  shorter \cup
             UNION {{Append(q, e) : e \in {g \in GeoPoints : g[1] = q[Len(q)][1]
                                                              \/ g[2] = q[Len(q)][2]}} :
                    q \in {r \in shorter : Len(r) = n - 1}}
GeoPaths == GeoPathsUpTo(MaxRing)
\* a path as an array of LatLng objects and as an array of [lat, lng] arrays
AsLatLngs(q) == Arr([i \in DOMAIN q |-> [type |-> "LatLng", val |-> q[i]]])
AsPairs(q) ==
    Arr([i \in DOMAIN q |-> Arr(<<[type |-> "number", val |-> q[i][1]],
                                  [type |-> "number", val |-> q[i][2]]>>)])
\* single rings, the empty sequence among them
SingleRings == {AsLatLngs(q) : q \in GeoPaths} \cup {AsPairs(q) : q \in GeoPaths} \cup {Arr(<<>>)}
\* sets of rings: one non-empty ring, an empty ring, an empty ring before a ring
MultiRings ==
    {Arr(<<r>>) : r \in SingleRings}
    \cup {Arr(<<Arr(<<>>), AsLatLngs(<<Pt(0, 0), Pt(0, GMax)>>)>>)}
CenterQueries ==
    {<<l>> : l \in SingleRings \cup MultiRings}
    \cup {<<l, crs>> : l \in SingleRings \cup MultiRings \cup {Undef, Null},
                       crs \in {[k |-> 1], [k |-> 2]}}

\* a caller holds the argument of isFlat or those of polylineCenter
InitCenter ==
    /\ \E args \in CenterQueries :
           query = [fn |-> "none", args |-> args, result |-> Undefined]
    /\ SimplifyIdle /\ ClipIdle /\ UiIdle

NextCenter == CallIsFlat \/ CallPolylineCenter

SpecCenter == InitCenter /\ [][NextCenter]_vars

\* ------------------------------------------- Handler and ScrollWheelZoom
\* setTimeout(fn, left): a handle that is neither pending nor the one the
\* handler still holds (the browser never gives the same handle twice)
FreeHandles == (1..MaxTimers) \ (DOMAIN timers \cup {_timer})
\* clearTimeout(handle): the pending timeouts without that one
clearTimeout(pending, handle) == [h \in DOMAIN pending \ {handle} |-> pending[h]]

\* ScrollWheelZoom.addHooks
addHooks ==
    /\ hooks' = Append(hooks, "addHooks")
    /\ listening' = TRUE
    /\ _delta' = 0
    /\ wheelSeen' = FALSE
    /\ UNCHANGED <<_timer, timers>>

\* faulty variant of removeHooks: clearTimeout(this._timer) is missing
removeHooks_KeepsTimer ==
    /\ hooks' = Append(hooks, "removeHooks")
    /\ listening' = FALSE
    /\ wheelSeen' = FALSE
    /\ UNCHANGED <<_delta, _timer, timers>>

\* ScrollWheelZoom.removeHooks
removeHooks ==
    /\ hooks' = Append(hooks, "removeHooks")
    /\ listening' = FALSE
    /\ timers' = clearTimeout(timers, _timer)
    /\ wheelSeen' = FALSE
    /\ UNCHANGED <<_delta, _timer>>

\* faulty variant of enable: the test `if (this._enabled) return` is missing
enable_NoTest ==
    /\ lastCall' = "enable"
    /\ Len(hooks) < MaxHooks /\ _enabled' = "true" /\ addHooks
    /\ UNCHANGED <<now, _startTime, performed>>
    /\ UNCHANGED <<simplifyVars, clipVars, queryVars, popupVars, panVars, canvasVars>>

\* Handler.enable
enable ==
    /\ lastCall' = "enable"
    /\ IF _enabled = "true"
       THEN UNCHANGED <<_enabled, hooks, listening, _delta, _timer, timers, wheelSeen>>
       ELSE Len(hooks) < MaxHooks /\ _enabled' = "true" /\ addHooks
    /\ UNCHANGED <<now, _startTime, performed>>
    /\ UNCHANGED <<simplifyVars, clipVars, queryVars, popupVars, panVars, canvasVars>>

\* Handler.disable
disable ==
    /\ lastCall' = "disable"
    /\ IF _enabled # "true"
       THEN UNCHANGED <<_enabled, hooks, listening, _delta, _timer, timers, wheelSeen>>
       ELSE Len(hooks) < MaxHooks /\ _enabled' = "false" /\ removeHooks
    /\ UNCHANGED <<now, _startTime, performed>>
    /\ UNCHANGED <<simplifyVars, clipVars, queryVars, popupVars, panVars, canvasVars>>

\* Handler.enabled
enabled == _enabled = "true"

\* a 'wheel' event of the map's container, delivered while _onWheelScroll is
\* registered: ScrollWheelZoom._onWheelScroll(e) with getWheelDelta(e) = delta
_onWheelScroll(delta) ==
    /\ listening
    /\ Abs(_delta + delta) <= DeltaMax
    /\ lastCall' = "_onWheelScroll"
    /\ _delta' = _delta + delta
    /\ _startTime' = IF _startTime = NoTime THEN now ELSE _startTime
    /\ \E left \in {IF wheelDebounceTime - (now - _startTime') > 0
                     THEN wheelDebounceTime - (now - _startTime') ELSE 0},
          handle \in FreeHandles :
           /\ handle = CHOOSE h \in FreeHandles : \A g \in FreeHandles : h <= g
           /\ timers' = [h \in (DOMAIN timers \ {_timer}) \cup {handle} |->
                            IF h = handle THEN now + left ELSE timers[h]]
           /\ _timer' = handle
    /\ wheelSeen' = TRUE
    /\ UNCHANGED <<now, _enabled, hooks, listening, performed>>
    /\ UNCHANGED <<simplifyVars, clipVars, queryVars, popupVars, panVars, canvasVars>>

\* the timeout `handle` is due and the browser runs its callback,
\* ScrollWheelZoom._performZoom (the calls on the map are not part of the
\* handler's state)
_performZoom(handle) ==
    /\ handle \in DOMAIN timers /\ timers[handle] <= now
    /\ timers' = clearTimeout(timers, handle)
    /\ lastCall' = "_performZoom"
    /\ performed' = Append(performed, now)
    /\ _delta' = 0
    /\ _startTime' = NoTime
    /\ UNCHANGED <<now, _enabled, hooks, listening, _timer, wheelSeen>>
    /\ UNCHANGED <<simplifyVars, clipVars, queryVars, popupVars, panVars, canvasVars>>

\* a tick of the clock; a timeout that is due may run late
Tick ==
    /\ now < TMax
    /\ now' = now + 1
    /\ UNCHANGED <<_enabled, hooks, listening, _delta, _startTime, _timer, timers,
                   wheelSeen, performed, lastCall>>
    /\ UNCHANGED <<simplifyVars, clipVars, queryVars, popupVars, panVars, canvasVars>>

\* a handler just constructed: nothing is enabled, hooked or pending
InitWheel ==
    /\ now = 1 /\ _enabled = "undefined" /\ hooks = <<>> /\ listening = FALSE
    /\ _delta = 0 /\ _startTime = NoTime /\ _timer = NoTimer /\ timers = <<>>
    /\ wheelSeen = FALSE /\ performed = <<>> /\ lastCall = "new"
    /\ SimplifyIdle /\ ClipIdle /\ QueryIdle /\ PopupIdle /\ PanIdle /\ CanvasIdle

NextWheel ==
    \/ enable
    \/ disable
    \/ \E delta \in {0 - 60, 60} : _onWheelScroll(delta)
    \/ \E handle \in 1..MaxTimers : _performZoom(handle)
    \/ Tick

SpecWheel == InitWheel /\ [][NextWheel]_vars

\* ------------------------------------------------------- Popup and Map
Popups == 1..NPopups

\* map.hasLayer(popup)
hasLayer(popup) == popup \in layers

\* faulty variant of openOn: the popup opened before is never removed
openOn_KeepsPrevious(popup) ==
    /\ layers' = layers \cup {popup}
    /\ closed' = {}
    /\ _popup' = popup

\* Popup.openOn(map): removes map._popup if the popup to open is not on the
\* map and map._popup has the option autoClose, makes the popup map._popup, and
\* (DivOverlay.openOn) adds it to the map if it is not on it
openOn(popup) ==
    /\ \E removed \in {IF ~hasLayer(popup) /\ _popup # NoPopup /\ autoClose[_popup]
                        THEN {_popup} ELSE {}} :
           /\ layers' = (layers \ removed) \cup {popup}
           /\ closed' = removed \cap layers
    /\ _popup' = popup

\* Map.openPopup(popup) for a Popup object (_initOverlay returns it as it is)
openPopup(popup) ==
    /\ lastCall' = "openPopup"
    /\ openOn(popup)
    /\ UNCHANGED <<autoClose, wheelFields>>
    /\ UNCHANGED <<simplifyVars, clipVars, queryVars, panVars, canvasVars>>

\* Map.closePopup(popup), and Map.closePopup() when popup is NoPopup:
\* popup?.close() removes the popup from the map
closePopup(popup) ==
    /\ lastCall' = "closePopup"
    /\ \E target \in {IF popup = NoPopup THEN _popup ELSE popup} :
           /\ layers' = layers \ {target}
           /\ closed' = {target} \cap layers
    /\ UNCHANGED <<autoClose, _popup, wheelFields>>
    /\ UNCHANGED <<simplifyVars, clipVars, queryVars, panVars, canvasVars>>

\* a map without popups, and popups with their option autoClose set or not
InitPopup ==
    /\ autoClose \in [Popups -> BOOLEAN]
    /\ layers = {} /\ _popup = NoPopup /\ closed = {}
    /\ SimplifyIdle /\ ClipIdle /\ QueryIdle /\ WheelIdle /\ PanIdle /\ CanvasIdle

NextPopup ==
    \/ \E popup \in Popups : openPopup(popup)
    \/ \E popup \in Popups \cup {NoPopup} : closePopup(popup)

SpecPopup == InitPopup /\ [][NextPopup]_vars

\* ------------------------------------------------------- Popup._adjustPan
RAbs(u) == IF RLt(u, Num(0)) THEN RNeg(u) ELSE u

\* what a run of _adjustPan reads and writes: the popup's flag, the map's pan
\* animation, the popup's position and registration, and the observations
PanState ==
    [flag |-> _autopanning, anim |-> _panAnim, left |-> panLeft, out |-> outside,
     on |-> opened, runs |-> <<>>, cut |-> FALSE]

\* faulty variant of _ownAutopan: the run never takes itself for the answer to
\* the popup's own pan
_ownAutopan_Never(flag) == FALSE

\* the test `if (this._autopanning)`
_ownAutopan(flag) == flag

RECURSIVE _adjustPan(_, _, _, _)
RECURSIVE fireMoveend(_, _, _, _)
RECURSIVE stop(_, _, _)
RECURSIVE panBy(_, _, _, _)

\* map.fire('moveend'): Popup.getEvents registers _adjustPan for moveend if
\* keepInView is set, for as long as the popup is on the map
fireMoveend(st, cause, reached, depth) ==
    IF st.on /\ keepInView THEN _adjustPan(st, cause, reached, depth) ELSE st

\* map._panAnim?.stop(): a pan animation in progress stops where it is, at its
\* start or (reached) at its end, and the map fires the moveend of that pan
stop(st, reached, depth) ==
    IF ~st.anim THEN st
    ELSE fireMoveend([st EXCEPT !.anim = FALSE, !.left = Num(0),
                                !.out = IF reached THEN RSub(st.out, st.left) ELSE st.out],
                     "own", reached, depth)

\* map.panBy([dx, 0]): the offset is rounded; no offset fires moveend at once,
\* an offset larger than the map resets the view and fires moveend at once, any
\* other one starts the pan animation, whose end fires moveend
panBy(st, dx, reached, depth) ==
    LET offset == MathRound(dx)
    IN  IF offset = Num(0) THEN fireMoveend(st, "own", reached, depth)
        ELSE IF RGt(RAbs(offset), Num(MapSize))
        THEN fireMoveend([st EXCEPT !.out = RSub(st.out, offset)], "own", reached, depth)
        ELSE [stop(st, reached, depth) EXCEPT !.anim = TRUE, !.left = offset]

\* Popup._adjustPan, run for `cause`: "direct" for a call, "own" for the moveend
\* of a pan the popup started, "foreign" for any other moveend. The run is
\* logged with the value of _autopanning at the test (flag), whether the popup
\* was outside the view (need), whether the run called panBy (panned) and the
\* value of _autopanning when the run returned (after)
_adjustPan(st, cause, reached, depth) ==
    IF depth > MaxNest THEN [st EXCEPT !.cut = TRUE]
    ELSE IF ~autoPan THEN st
    ELSE LET s1 == stop(st, reached, depth + 1)
             dx == s1.out
             run(panned, after) ==
                 [cause |-> cause, flag |-> s1.flag, need |-> dx # Num(0),
                  panned |-> panned, after |-> after]
         IN  IF _ownAutopan(s1.flag)
             THEN [s1 EXCEPT !.flag = FALSE, !.runs = Append(@, run(FALSE, FALSE))]
             ELSE IF dx # Num(0)
             THEN LET s2 == panBy([s1 EXCEPT !.flag = IF keepInView THEN TRUE ELSE @],
                                  dx, reached, depth + 1)
                  IN  [s2 EXCEPT !.runs = Append(@, run(TRUE, s2.flag))]
             ELSE [s1 EXCEPT !.runs = Append(@, run(FALSE, s1.flag))]

\* the popup and the map after an event that left st
LeavePan(st) ==
    /\ _autopanning' = st.flag /\ _panAnim' = st.anim /\ panLeft' = st.left
    /\ outside' = st.out /\ runs' = st.runs /\ overrun' = st.cut
    /\ UNCHANGED <<autoPan, keepInView>>
    /\ UNCHANGED <<simplifyVars, clipVars, queryVars, wheelVars, popupVars, canvasVars>>

\* the distances by which an event may leave the popup outside the view: none,
\* a quarter of a pixel, one pixel, more than the width of the map
PanOffsets == {Num(0), Norm(1, 4), Num(1), Num(MapSize + 1)}

\* the popup is added to the map at a place that leaves it dx outside the
\* view: its events are registered and DivOverlay.update calls _adjustPan
PopupAdded(dx, reached) ==
    /\ ~opened
    /\ opened' = TRUE
    /\ LeavePan(_adjustPan([PanState EXCEPT !.on = TRUE, !.out = dx], "direct", reached, 1))

\* the popup is removed from the map: its events are unregistered (a pan
\* animation in progress goes on)
PopupRemoved ==
    /\ opened
    /\ opened' = FALSE
    /\ runs' = <<>>
    /\ UNCHANGED <<autoPan, keepInView, _autopanning, _panAnim, panLeft, outside, overrun>>
    /\ UNCHANGED <<simplifyVars, clipVars, queryVars, wheelVars, popupVars, canvasVars>>

\* the pan animation reaches its end: the view has moved by panLeft and the map
\* fires moveend
PanEnd ==
    /\ _panAnim
    /\ LeavePan(fireMoveend([PanState EXCEPT !.anim = FALSE, !.left = Num(0),
                                             !.out = RSub(outside, panLeft)],
                            "own", TRUE, 1))
    /\ UNCHANGED opened

\* the user or the application moves the view (drag, zoom, setView): the map
\* stops its pan animation, moves, and fires moveend; the popup is then dx
\* outside the view
MoveView(dx, reached) ==
    /\ LeavePan(fireMoveend([stop(PanState, reached, 1) EXCEPT !.out = dx],
                            "foreign", reached, 1))
    /\ UNCHANGED opened

\* the map's container was resized (map.invalidateSize): the view moves at once
\* and the map fires moveend; a pan animation in progress is not stopped
InvalidateSize(dx, reached) ==
    /\ LeavePan(fireMoveend([PanState EXCEPT !.out = dx], "foreign", reached, 1))
    /\ UNCHANGED opened

\* the callback of the popup's ResizeObserver: the content has a new size,
\* which leaves the popup dx outside the view, and _adjustPan is called
ContentResized(dx, reached) ==
    /\ opened
    /\ LeavePan(_adjustPan([PanState EXCEPT !.out = dx], "direct", reached, 1))
    /\ UNCHANGED opened

\* a popup with its options autoPan and keepInView set or not, not yet opened
InitPan ==
    /\ autoPan \in BOOLEAN /\ keepInView \in BOOLEAN /\ opened = FALSE
    /\ _autopanning = FALSE /\ _panAnim = FALSE /\ panLeft = Num(0)
    /\ outside = Num(0) /\ runs = <<>> /\ overrun = FALSE
    /\ SimplifyIdle /\ ClipIdle /\ QueryIdle /\ WheelIdle /\ PopupIdle /\ CanvasIdle

NextPan ==
    \/ \E dx \in PanOffsets, reached \in BOOLEAN : PopupAdded(dx, reached)
    \/ PopupRemoved
    \/ PanEnd
    \/ \E dx \in PanOffsets \cup {outside}, reached \in BOOLEAN : MoveView(dx, reached)
    \/ \E dx \in PanOffsets \cup {outside}, reached \in BOOLEAN : InvalidateSize(dx, reached)
    \/ \E dx \in PanOffsets \cup {outside}, reached \in BOOLEAN : ContentResized(dx, reached)

SpecPan == InitPan /\ [][NextPan]_vars

\* ------------------------------------------------------------------ Canvas
Layers == 1..NLayers

\* the draw order as the renderer holds it: _drawFirst, _drawLast and the
\* _order of the layers
DrawOrder == [first |-> _drawFirst, last |-> _drawLast, order |-> _order]

\* lines 239 to 246 of _initPath: a new order for `layer` is linked after _drawLast
_linkLast(d, layer) ==
    LET order == [prev |-> d.last, next |-> NoLayer]
    IN  [first |-> IF d.first = NoLayer THEN layer ELSE d.first,
         last  |-> layer,
         order |-> [k \in DOMAIN d.order \cup {layer} |->
                       IF k = layer THEN order
                       ELSE IF k = d.last THEN [d.order[k] EXCEPT !.next = layer]
                       ELSE d.order[k]]]

\* faulty variant of _unlink: _drawFirst is not moved on when the first layer goes
_unlink_KeepsFirst(d, layer) ==
    LET next == d.order[layer].next
        prev == d.order[layer].prev
        o1   == IF next # NoLayer THEN [d.order EXCEPT ![next].prev = prev] ELSE d.order
        o2   == IF prev # NoLayer THEN [o1 EXCEPT ![prev].next = next] ELSE o1
    IN  [first |-> d.first,
         last  |-> IF next # NoLayer THEN d.last ELSE prev,
         order |-> [k \in DOMAIN o2 \ {layer} |-> o2[k]]]

\* lines 254 to 269 of _removePath: the order of `layer` is taken out of the list
_unlink(d, layer) ==
    LET next == d.order[layer].next
        prev == d.order[layer].prev
        o1   == IF next # NoLayer THEN [d.order EXCEPT ![next].prev = prev] ELSE d.order
        o2   == IF prev # NoLayer THEN [o1 EXCEPT ![prev].next = next] ELSE o1
    IN  [first |-> IF prev # NoLayer THEN d.first ELSE next,
         last  |-> IF next # NoLayer THEN d.last ELSE prev,
         order |-> [k \in DOMAIN o2 \ {layer} |-> o2[k]]]

\* lines 520 to 540 of _bringToFront, for a layer that has an order and is not
\* the last one
_toFront(d, layer) ==
    LET next == d.order[layer].next
        prev == d.order[layer].prev
        o1   == [d.order EXCEPT ![next].prev = prev]
        o2   == IF prev # NoLayer THEN [o1 EXCEPT ![prev].next = next] ELSE o1
        o3   == [o2 EXCEPT ![layer].prev = d.last]
        o4   == [o3 EXCEPT ![d.last].next = layer]
        o5   == [o4 EXCEPT ![layer].next = NoLayer]
    IN  [first |-> IF prev # NoLayer THEN d.first ELSE next,
         last  |-> layer,
         order |-> o5]

\* lines 551 to 571 of _bringToBack, for a layer that has an order and is not
\* the first one
_toBack(d, layer) ==
    LET next == d.order[layer].next
        prev == d.order[layer].prev
        o1   == [d.order EXCEPT ![prev].next = next]
        o2   == IF next # NoLayer THEN [o1 EXCEPT ![next].prev = prev] ELSE o1
        o3   == [o2 EXCEPT ![layer].prev = NoLayer]
        o4   == [o3 EXCEPT ![layer].next = d.first]
        o5   == [o4 EXCEPT ![d.first].prev = layer]
    IN  [first |-> layer,
         last  |-> IF next # NoLayer THEN d.last ELSE prev,
         order |-> o5]

\* the renderer holds the draw order d
LeaveOrder(d) == _drawFirst' = d.first /\ _drawLast' = d.last /\ _order' = d.order

\* requestAnimationFrame: a handle that is neither pending nor held
FreeFrames == (1..MaxFrames) \ (frames \cup {_redrawRequest})

\* Canvas._requestRedraw(layer)
_requestRedraw ==
    IF ~_map \/ _redrawRequest # NoFrame
    THEN UNCHANGED <<_redrawRequest, frames>>
    ELSE \E handle \in FreeFrames :
             /\ handle = CHOOSE h \in FreeFrames : \A g \in FreeFrames : h <= g
             /\ _redrawRequest' = handle
             /\ frames' = frames \cup {handle}

\* Canvas._redraw: _clear and _draw use this._ctx
_redraw ==
    /\ _redrawRequest' = NoFrame
    /\ drawn' = IF _ctx THEN "redraw" ELSE "TypeError"

\* what no method of the renderer changes
CanvasFrame == UNCHANGED <<simplifyVars, clipVars, queryVars, wheelVars, popupVars, panVars>>

\* Canvas.onAdd: the renderer is added to a map, gets its container and draws
onAdd ==
    /\ ~_map
    /\ called' = [fn |-> "onAdd", layer |-> NoLayer, early |-> FALSE]
    /\ _map' = TRUE /\ _ctx' = TRUE /\ drawn' = "draw"
    /\ UNCHANGED <<_layers, _order, _drawFirst, _drawLast, _redrawRequest, frames,
                   _postponeUpdatePaths>>
    /\ CanvasFrame

\* the renderer is removed from its map: Renderer.onRemove calls
\* Canvas._destroyContainer
_destroyContainer ==
    /\ _map
    /\ called' = [fn |-> "_destroyContainer", layer |-> NoLayer, early |-> FALSE]
    /\ frames' = frames \ {_redrawRequest}
    /\ _redrawRequest' = NoFrame
    /\ _ctx' = FALSE /\ _map' = FALSE /\ drawn' = "none"
    /\ UNCHANGED <<_layers, _order, _drawFirst, _drawLast, _postponeUpdatePaths>>
    /\ CanvasFrame

\* Canvas._initPath(layer), which Path.onAdd calls for a layer that is not registered
_initPath(layer) ==
    /\ layer \notin _layers
    /\ called' = [fn |-> "_initPath", layer |-> layer, early |-> FALSE]
    /\ _layers' = _layers \cup {layer}
    /\ LeaveOrder(_linkLast(DrawOrder, layer))
    /\ drawn' = "none"
    /\ UNCHANGED <<_map, _ctx, _redrawRequest, frames, _postponeUpdatePaths>>
    /\ CanvasFrame

\* Canvas._addPath(layer), _updatePath(layer) and _updateStyle(layer): the
\* renderer is asked to redraw
_addPath(layer) ==
    /\ layer \in _layers
    /\ called' = [fn |-> "_addPath", layer |-> layer, early |-> FALSE]
    /\ _requestRedraw
    /\ drawn' = "none"
    /\ UNCHANGED <<_map, _ctx, _layers, _order, _drawFirst, _drawLast, _postponeUpdatePaths>>
    /\ CanvasFrame

\* Canvas._removePath(layer), which Path.onRemove calls for a registered layer
_removePath(layer) ==
    /\ layer \in _layers
    /\ called' = [fn |-> "_removePath", layer |-> layer, early |-> FALSE]
    /\ LeaveOrder(_unlink(DrawOrder, layer))
    /\ _layers' = _layers \ {layer}
    /\ _requestRedraw
    /\ drawn' = "none"
    /\ UNCHANGED <<_map, _ctx, _postponeUpdatePaths>>
    /\ CanvasFrame

\* Canvas._bringToFront(layer)
_bringToFront(layer) ==
    /\ called' = [fn |-> "_bringToFront", layer |-> layer,
                  early |-> (layer \notin DOMAIN _order \/ _order[layer].next = NoLayer)]
    /\ drawn' = "none"
    /\ IF layer \notin DOMAIN _order \/ _order[layer].next = NoLayer
       THEN UNCHANGED <<_order, _drawFirst, _drawLast, _redrawRequest, frames>>
       ELSE LeaveOrder(_toFront(DrawOrder, layer)) /\ _requestRedraw
    /\ UNCHANGED <<_map, _ctx, _layers, _postponeUpdatePaths>>
    /\ CanvasFrame

\* Canvas._bringToBack(layer)
_bringToBack(layer) ==
    /\ called' = [fn |-> "_bringToBack", layer |-> layer,
                  early |-> (layer \notin DOMAIN _order \/ _order[layer].prev = NoLayer)]
    /\ drawn' = "none"
    /\ IF layer \notin DOMAIN _order \/ _order[layer].prev = NoLayer
       THEN UNCHANGED <<_order, _drawFirst, _drawLast, _redrawRequest, frames>>
       ELSE LeaveOrder(_toBack(DrawOrder, layer)) /\ _requestRedraw
    /\ UNCHANGED <<_map, _ctx, _layers, _postponeUpdatePaths>>
    /\ CanvasFrame

\* Canvas._updatePaths, which the renderer on a map runs when the view has
\* moved: the layers are updated and the canvas is redrawn at once
_updatePaths ==
    /\ _map
    /\ called' = [fn |-> "_updatePaths", layer |-> NoLayer, early |-> _postponeUpdatePaths]
    /\ IF _postponeUpdatePaths
       THEN drawn' = "none" /\ UNCHANGED _redrawRequest
       ELSE _redraw
    /\ UNCHANGED <<_map, _ctx, _layers, _order, _drawFirst, _drawLast, frames,
                   _postponeUpdatePaths>>
    /\ CanvasFrame

\* Canvas._onViewPreReset
_onViewPreReset ==
    /\ _map
    /\ called' = [fn |-> "_onViewPreReset", layer |-> NoLayer, early |-> FALSE]
    /\ _postponeUpdatePaths' = TRUE
    /\ drawn' = "none"
    /\ UNCHANGED <<_map, _ctx, _layers, _order, _drawFirst, _drawLast, _redrawRequest, frames>>
    /\ CanvasFrame

\* Canvas._reset: a postponed _updatePaths is run now
_reset ==
    /\ _map
    /\ called' = [fn |-> "_reset", layer |-> NoLayer, early |-> FALSE]
    /\ _postponeUpdatePaths' = FALSE
    /\ IF _postponeUpdatePaths
       THEN _redraw
       ELSE drawn' = "none" /\ UNCHANGED _redrawRequest
    /\ UNCHANGED <<_map, _ctx, _layers, _order, _drawFirst, _drawLast, frames>>
    /\ CanvasFrame

\* the browser runs the callback of the pending animation frame `handle`,
\* this._redraw
AnimationFrame(handle) ==
    /\ handle \in frames
    /\ called' = [fn |-> "_redraw", layer |-> NoLayer, early |-> FALSE]
    /\ frames' = frames \ {handle}
    /\ _redraw
    /\ UNCHANGED <<_map, _ctx, _layers, _order, _drawFirst, _drawLast, _postponeUpdatePaths>>
    /\ CanvasFrame

\* a renderer just constructed: no map, no layer, no frame requested
InitCanvas ==
    /\ _map = FALSE /\ _ctx = FALSE /\ _layers = {} /\ _order = <<>>
    /\ _drawFirst = NoLayer /\ _drawLast = NoLayer
    /\ _redrawRequest = NoFrame /\ frames = {}
    /\ _postponeUpdatePaths = FALSE /\ drawn = "none"
    /\ called = [fn |-> "new", layer |-> NoLayer, early |-> FALSE]
    /\ SimplifyIdle /\ ClipIdle /\ QueryIdle /\ WheelIdle /\ PopupIdle /\ PanIdle

NextCanvas ==
    \/ onAdd
    \/ _destroyContainer
    \/ \E layer \in Layers : _initPath(layer)
    \/ \E layer \in Layers : _addPath(layer)
    \/ \E layer \in Layers : _removePath(layer)
    \/ \E layer \in Layers : _bringToFront(layer)
    \/ \E layer \in Layers : _bringToBack(layer)
    \/ _updatePaths
    \/ _onViewPreReset
    \/ _reset
    \/ \E handle \in 1..MaxFrames : AnimationFrame(handle)

SpecCanvas == InitCanvas /\ [][NextCanvas]_vars

\* ------------------------- clipSegment on coordinates that are not integers
\* the rectangle lies in the unit square, the endpoints in the unit square
\* widened by 1 / Den on every side
FineCoords == {Norm(k, Den) : k \in (0 - 1)..(Den + 1)}
FinePoints == {<<x, y>> : x \in FineCoords, y \in FineCoords}
FineEdges == {Norm(k, Den) : k \in 0..Den}
\* the squares [lo, hi] x [lo, hi] with lo <= hi
FineBounds ==
    {bnds \in {[min |-> <<lo, lo>>, max |-> <<hi, hi>>] : lo \in FineEdges, hi \in FineEdges} :
        RLe(bnds.min[1], bnds.max[1])}

\* as InitClip, the segment and the rectangle having coordinates k / Den
InitRound ==
    /\ a \in FinePoints /\ b \in FinePoints /\ bounds \in FineBounds
    /\ useLastCode = FALSE /\ round = FALSE
    /\ _lastCode = NoCode /\ clip = NoClip /\ pc = "call"
    /\ cont = FALSE /\ other = Undefined
    /\ SimplifyIdle /\ QueryIdle /\ UiIdle

SpecRound == InitRound /\ [][NextClip]_vars

\* ------------------------------------------------- claims about simplify
In == heap[points]
Out == heap[ret]
Range(q) == {q[i] : i \in DOMAIN q}
SqTol == IF tolerance = <<>> THEN Num(0) ELSE Num(tolerance[1] * tolerance[1])
NumericTolerances == Tolerances \ {<<>>}
NoTolerance == tolerance \in {<<>>, <<0>>}

\* q is p with some elements left out: a greedy embedding of q into p from index i on
RECURSIVE EmbedsFrom(_, _, _)
EmbedsFrom(q, p, i) ==
    IF q = <<>> THEN TRUE
    ELSE IF i > Len(p) THEN FALSE
    ELSE IF p[i] = q[1] THEN EmbedsFrom(Tail(q), p, i + 1)
    ELSE EmbedsFrom(q, p, i + 1)
IsSubsequence(q, p) == EmbedsFrom(q, p, 1)

\* p is within square distance `bound` of the polyline through the points of poly
WithinOfPolyline(p, poly, bound) ==
    \/ Len(poly) = 1 /\ RLe(_sqDist(p, poly[1]), bound)
    \/ \E i \in 1..(Len(poly) - 1) :
           RLe(_sqClosestPointOnSegment(p, poly[i], poly[i + 1], TRUE), bound)

\* C1: for a non-empty input and any tolerance (absent, zero or positive) the
\* result of simplify is non-empty, starts with the first input point and
\* ends with the last input point.
C1_EndpointsPreserved ==
    (op = "simplify" /\ Len(In) >= 1) =>
        /\ Len(Out) >= 1
        /\ Out[1] = In[1]
        /\ Out[Len(Out)] = In[Len(In)]

\* C1 witness: simplify dropped points of an input whose last point lies within
\* the tolerance of its predecessor
C1_Witness ==
    /\ op = "simplify" /\ ~NoTolerance
    /\ Len(In) >= 3 /\ Len(Out) < Len(In)
    /\ RLe(_sqDist(In[Len(In)], In[Len(In) - 1]), SqTol)

\* C2: simplifying the result of simplify again with the same tolerance returns
\* the same sequence of points.
C2_Idempotent ==
    op = "simplify" =>
        LET again == simplify(heap, ret, tolerance)
        IN  again.heap[again.ret] = Out

\* C2 witness: a call in which simplify dropped a point and kept an interior one
C2_Witness ==
    op = "simplify" /\ ~NoTolerance /\ Len(Out) >= 3 /\ Len(Out) < Len(In)

C4_DeviationAsStated ==
    (op = "simplify" /\ Len(In) >= 1) =>
        \A i \in DOMAIN In : WithinOfPolyline(In[i], Out, SqTol)

\* C4, amended: every input point lies within twice the tolerance of the
\* polyline simplify returns; within the tolerance of the polyline that
\* Douglas-Peucker taken alone returns; and within the tolerance of a point
\* that vertex reduction taken alone keeps.
C4_DeviationAmended ==
    /\ (op = "simplify" /\ Len(In) >= 1) =>
           \A i \in DOMAIN In : WithinOfPolyline(In[i], Out, RMul(Num(4), SqTol))
    /\ (op = "_simplifyDP" /\ Len(In) >= 1) =>
           \A i \in DOMAIN In : WithinOfPolyline(In[i], Out, SqTol)
    /\ (op = "_reducePoints" /\ Len(In) >= 1) =>
           \A i \in DOMAIN In : \E k \in DOMAIN Out : RLe(_sqDist(In[i], Out[k]), SqTol)

\* C4 witness: simplify dropped a point that lies farther than the tolerance
\* from the polyline it returned
C4_Witness ==
    /\ op = "simplify" /\ ~NoTolerance
    /\ \E i \in DOMAIN In : ~WithinOfPolyline(In[i], Out, SqTol)

\* C5: with the tolerance 0 or absent, or an empty input, simplify returns a
\* sequence of the input's length with the same point at every index.
C5_CopyWhenNoTolerance ==
    (op = "simplify" /\ (NoTolerance \/ Len(In) = 0)) =>
        /\ Len(Out) = Len(In)
        /\ \A i \in DOMAIN In : Out[i] = In[i]

\* C5 witness: a call with tolerance 0 on an input that vertex reduction with
\* square tolerance 0 would shorten (two equal neighbours)
C5_Witness ==
    /\ op = "simplify" /\ tolerance = <<0>>
    /\ \E i \in 1..(Len(In) - 1) : In[i] = In[i + 1]

\* C6: a call of simplify returns an array that is not the input array, and
\* leaves the input array as it was.
C6_FreshResultInputIntact ==
    [][op' = "simplify" => (ret' # points /\ heap'[points] = heap[points])]_vars

\* C6 witness: simplify returned an array with the same points as the input
\* array, which only its identity tells from the input
C6_Witness ==
    op = "simplify" /\ Len(In) >= 2 /\ Out = In

LastKeptBefore(kept, i) ==
    CHOOSE j \in Range(kept) : j < i /\ \A l \in Range(kept) : l < i => l <= j

\* the points are spaced 1 apart on a line: (0,0), (0,1), (0,2), ...
SpacedOneApart(arr) == \A i \in DOMAIN arr : arr[i] = Pt(0, i - 1)

\* C31: in the output of vertex reduction with squared tolerance s, every
\* output point except possibly the last is farther than s (squared distance,
\* strictly) from the output point before it; every dropped input point is
\* within s of the last point kept before it; the last input point is always in
\* the output, also when it is within s of the last kept point. Points spaced
\* 1 apart with s = 4 keep the indices 0, 3, 6, ... and the last index.
C31_VertexReduction ==
    (op = "_reducePoints" /\ Len(In) >= 1) =>
        LET kept == _reduceKept(In, SqTol)
            n    == Len(kept)
        IN  /\ Out = [k \in 1..n |-> In[kept[k]]]
            /\ kept[1] = 1 /\ kept[n] = Len(In)
            /\ \A k \in 1..(n - 1) : kept[k] < kept[k + 1]
            /\ \A k \in 2..(n - 1) : RGt(_sqDist(In[kept[k]], In[kept[k - 1]]), SqTol)
            /\ \A i \in DOMAIN In :
                   i \notin Range(kept) =>
                       RLe(_sqDist(In[i], In[LastKeptBefore(kept, i)]), SqTol)
            /\ (SpacedOneApart(In) /\ SqTol = Num(4)) =>
                   Range(kept) = {i \in DOMAIN In : (i - 1) % 3 = 0} \cup {Len(In)}

\* C31 witness: vertex reduction dropped a point, kept an interior point and
\* pushed a last point that lies within the tolerance of the point kept before it
C31_Witness ==
    /\ op = "_reducePoints" /\ Len(In) >= 1
    /\ 2 \notin Range(_reduceKept(In, SqTol))
    /\ Len(Out) = 3
    /\ RLe(_sqDist(Out[3], Out[2]), SqTol)

\* the squared distance of arr[k] to the segment from arr[i] to arr[j]
SqDistToChord(arr, k, i, j) == _sqClosestPointOnSegment(arr[k], arr[i], arr[j], TRUE)

\* the greatest squared distance of an interior point of the span i..j to its
\* chord is exactly sq
MaxSqDistIs(arr, i, j, sq) ==
    /\ \E k \in (i + 1)..(j - 1) : SqDistToChord(arr, k, i, j) = sq
    /\ \A k \in (i + 1)..(j - 1) : RLe(SqDistToChord(arr, k, i, j), sq)

\* C32: in the output of Douglas-Peucker with squared tolerance s, for every two
\* consecutive kept indices i < j of the input, every input point with an index
\* strictly between i and j is within s (squared distance) of the segment from
\* point i to point j; a span whose greatest squared distance is exactly s keeps
\* no interior point.
C32_DouglasPeucker ==
    op = "_simplifyDP" =>
        LET markers == _dpMarkers(In, SqTol)
        IN  /\ Out = _dpCollect(In, markers, 1)
            /\ \A i, j \in markers :
                   (i < j /\ \A l \in (i + 1)..(j - 1) : l \notin markers) =>
                       \A k \in (i + 1)..(j - 1) : RLe(SqDistToChord(In, k, i, j), SqTol)
            /\ MaxSqDistIs(In, 1, Len(In), SqTol) => markers = {1, Len(In)}

\* C32 witness: Douglas-Peucker ran on a span of four points whose greatest
\* squared distance to the chord is exactly the (positive) squared tolerance
C32_Witness ==
    /\ op = "_simplifyDP" /\ Len(In) = 4
    /\ RGt(SqTol, Num(0))
    /\ MaxSqDistIs(In, 1, Len(In), SqTol)
    /\ Len(Out) = 2

\* the interior points of the span i..j at the greatest squared distance to its chord
Farthest(arr, i, j) ==
    {k \in (i + 1)..(j - 1) :
        \A l \in (i + 1)..(j - 1) : RLe(SqDistToChord(arr, l, i, j), SqDistToChord(arr, k, i, j))}

\* the least element of a non-empty set of indices
Lowest(S) == CHOOSE k \in S : \A l \in S : k <= l

\* C33: in each Douglas-Peucker span, when several interior points have the same
\* greatest squared distance to the chord, the one with the lowest index is the
\* one the scan selects: it is marked kept and used as the split point.
C33_LowestIndexWins ==
    op = "_simplifyDP" =>
        /\ \A i, j \in DOMAIN In :
               LET m == _dpScan(In, i, j, i + 1, <<0, Num(0)>>)
               IN  (i + 1 < j /\ RGt(m[2], Num(0))) =>
                       /\ m[1] = Lowest(Farthest(In, i, j))
                       /\ m[2] = SqDistToChord(In, m[1], i, j)
        /\ (Len(In) >= 3 /\ RGt(_dpScan(In, 1, Len(In), 2, <<0, Num(0)>>)[2], SqTol)) =>
               LET k == Lowest(Farthest(In, 1, Len(In)))
               IN  /\ k \in _dpMarkers(In, SqTol)
                   /\ _dpMarkers(In, SqTol) =
                          {1, k, Len(In)} \cup _simplifyDPStep(In, SqTol, 1, k)
                                          \cup _simplifyDPStep(In, SqTol, k, Len(In))

\* C33 witness: two interior points of the whole span are at the same greatest
\* squared distance, above a positive tolerance; the first of them was kept
C33_Witness ==
    /\ op = "_simplifyDP" /\ Len(In) = 4
    /\ Farthest(In, 1, 4) = {2, 3} /\ In[2] # In[3]
    /\ RGt(SqTol, Num(0))
    /\ RGt(SqDistToChord(In, 2, 1, 4), SqTol)
    /\ Out[2] = In[2]

\* the calls of _simplifyDPStep made by _simplifyDP(In, SqTol)
DPCalls == _simplifyDPStepCalls(In, SqTol, 1, Len(In), 0)

\* C34: Douglas-Peucker terminates for every finite input and every squared
\* tolerance >= 0: a call that splits its span has its split index strictly
\* between first and last, so each recursive call is made on a span strictly
\* shorter than its parent's, and the recursion depth never exceeds the number
\* of input points.
C34_RecursionBounded ==
    op = "_simplifyDP" =>
        /\ \A c \in DPCalls :
               /\ c.split => (c.first < c.index /\ c.index < c.last)
               /\ c.depth < MaxDepth
               /\ c.depth <= Len(In)
               /\ Len(In) >= 1 => c.depth + 1 <= Len(In)
               /\ c.depth > 0 =>
                      \E parent \in DPCalls :
                          /\ parent.split /\ parent.depth = c.depth - 1
                          /\ \/ c.first = parent.first /\ c.last = parent.index
                             \/ c.first = parent.index /\ c.last = parent.last
                          /\ c.last - c.first < parent.last - parent.first
        /\ {c.index : c \in {d \in DPCalls : d.split}} = _simplifyDPStep(In, SqTol, 1, Len(In))

\* C34 witness: Douglas-Peucker on four points recursed twice: a split of the
\* whole span and a split of one of its halves
C34_Witness ==
    /\ op = "_simplifyDP" /\ Len(In) = 4
    /\ \E c \in DPCalls : c.depth = 2

\* ---------------------------------------------- claims about clipSegment
\* p is inside or on the boundary of bnds
Inside(p, bnds) ==
    /\ RLe(bnds.min[1], p[1]) /\ RLe(p[1], bnds.max[1])
    /\ RLe(bnds.min[2], p[2]) /\ RLe(p[2], bnds.max[2])

\* the cross product (p - o) x (q - o)
Cross(o, p, q) ==
    RSub(RMul(RSub(p[1], o[1]), RSub(q[2], o[2])),
         RMul(RSub(p[2], o[2]), RSub(q[1], o[1])))

Corners(bnds) ==
    {<<bnds.min[1], bnds.min[2]>>, <<bnds.min[1], bnds.max[2]>>,
     <<bnds.max[1], bnds.min[2]>>, <<bnds.max[1], bnds.max[2]>>}

\* both endpoints violate one and the same side of bnds
CommonSide(pa, pb, bnds) ==
    \/ RLt(pa[1], bnds.min[1]) /\ RLt(pb[1], bnds.min[1])
    \/ RGt(pa[1], bnds.max[1]) /\ RGt(pb[1], bnds.max[1])
    \/ RLt(pa[2], bnds.min[2]) /\ RLt(pb[2], bnds.min[2])
    \/ RGt(pa[2], bnds.max[2]) /\ RGt(pb[2], bnds.max[2])

\* some point of the segment pa-pb lies inside or on the boundary of bnds: the
\* two convex sets have no separating axis among the rectangle's two axes and
\* the normal of the segment
SegmentMeetsBounds(pa, pb, bnds) ==
    /\ ~CommonSide(pa, pb, bnds)
    /\ ~(\A c \in Corners(bnds) : RGt(Cross(pa, pb, c), Num(0)))
    /\ ~(\A c \in Corners(bnds) : RLt(Cross(pa, pb, c), Num(0)))

\* p lies on the segment pa-pb
RMin(u, v) == IF RLt(v, u) THEN v ELSE u
RMax(u, v) == IF RGt(v, u) THEN v ELSE u
OnSegment(p, pa, pb) ==
    /\ Cross(pa, pb, p) = Num(0)
    /\ RLe(RMin(pa[1], pb[1]), p[1]) /\ RLe(p[1], RMax(pa[1], pb[1]))
    /\ RLe(RMin(pa[2], pb[2]), p[2]) /\ RLe(p[2], RMax(pa[2], pb[2]))

\* the parametric (Liang-Barsky) clip of pa + t (pb - pa), 0 <= t <= 1: the line
\* satisfies the edge constraint k * t <= q from t = q / k on when k < 0 and
\* up to t = q / k when k > 0
LBEnter(k, q) == IF RLt(k, Num(0)) THEN RDiv(q, k) ELSE Num(0)
LBLeave(k, q) == IF RGt(k, Num(0)) THEN RDiv(q, k) ELSE Num(1)
EnterParam(pa, pb, bnds) ==
    LET dx == RSub(pb[1], pa[1])
        dy == RSub(pb[2], pa[2])
    IN  RMax(RMax(LBEnter(RNeg(dx), RSub(pa[1], bnds.min[1])),
                  LBEnter(dx, RSub(bnds.max[1], pa[1]))),
             RMax(LBEnter(RNeg(dy), RSub(pa[2], bnds.min[2])),
                  LBEnter(dy, RSub(bnds.max[2], pa[2]))))
LeaveParam(pa, pb, bnds) ==
    LET dx == RSub(pb[1], pa[1])
        dy == RSub(pb[2], pa[2])
    IN  RMin(RMin(LBLeave(RNeg(dx), RSub(pa[1], bnds.min[1])),
                  LBLeave(dx, RSub(bnds.max[1], pa[1]))),
             RMin(LBLeave(RNeg(dy), RSub(pa[2], bnds.min[2])),
                  LBLeave(dy, RSub(bnds.max[2], pa[2]))))
At(pa, pb, t) ==
    <<RAdd(pa[1], RMul(t, RSub(pb[1], pa[1]))), RAdd(pa[2], RMul(t, RSub(pb[2], pa[2])))>>

\* the rectangle of the specification's examples
Box10 == [min |-> Pt(0, 0), max |-> Pt(10, 10)]

\* u is an integer (a non-finite number has no fractional part either)
IsInteger(u) == u[2] \in {0, 1}
HasFraction(p) == ~IsInteger(p[1]) \/ ~IsInteger(p[2])

\* a call without useLastCode and without round has returned
PlainClipReturned == pc = "return" /\ ~useLastCode /\ ~round

\* C9: without useLastCode and round, clipSegment returns, and it returns
\* false exactly when no point of the segment a-b is inside or on the boundary
\* of bounds; in particular when both endpoints violate a common side (as
\* (-5,-5)-(-1,-1) does for the rectangle (0,0)-(10,10)).
C9_RejectsExactlyOutside ==
    PlainClipReturned =>
        /\ clip.returned
        /\ (clip.ret = <<>>) <=> ~SegmentMeetsBounds(a, b, bounds)
        /\ CommonSide(a, b, bounds) => clip.ret = <<>>
        /\ clipSegment(Pt(-5, -5), Pt(-1, -1), Box10, FALSE, FALSE, _lastCode).out.ret = <<>>

\* C9 witness: a rejection that is not trivial, the endpoints violating different
\* sides of bounds
C9_Witness ==
    /\ PlainClipReturned /\ clip.returned /\ clip.ret = <<>>
    /\ ~CommonSide(a, b, bounds) /\ clip.steps >= 1

\* C10: without useLastCode and round, a returned pair [a', b'] has both points
\* inside or on the boundary of bounds and on the segment a-b, a' being the
\* point where the segment enters bounds coming from a and b' the point where
\* it leaves towards b; an endpoint that is inside bounds is returned as it is
\* ((-5,5)-(5,5) gives (0,5)-(5,5) for the rectangle (0,0)-(10,10)).
C10_ClippedPair ==
    (PlainClipReturned /\ clip.returned /\ clip.ret # <<>>) =>
        LET a1 == clip.ret[1]
            b1 == clip.ret[2]
        IN  /\ Inside(a1, bounds) /\ Inside(b1, bounds)
            /\ OnSegment(a1, a, b) /\ OnSegment(b1, a, b)
            /\ a1 = At(a, b, EnterParam(a, b, bounds))
            /\ b1 = At(a, b, LeaveParam(a, b, bounds))
            /\ Inside(a, bounds) => a1 = a
            /\ Inside(b, bounds) => b1 = b
            /\ clipSegment(Pt(-5, 5), Pt(5, 5), Box10, FALSE, FALSE, _lastCode).out.ret
                   = <<Pt(0, 5), Pt(5, 5)>>

\* C10 witness: both endpoints were outside bounds and were clipped, a' to a
\* point with a coordinate that is not an integer
C10_Witness ==
    /\ PlainClipReturned /\ clip.returned /\ clip.ret # <<>>
    /\ ~Inside(a, bounds) /\ ~Inside(b, bounds)
    /\ clip.ret[1][2][2] # 1

\* C11: when a and b are both inside or on the boundary of bounds, clipSegment
\* without useLastCode returns, without computing an intersection, the pair of
\* the very points a and b it was passed, whatever round is ((1,1)-(2,2) is
\* returned as it is for the rectangle (0,0)-(10,10)).
C11_TrivialAccept ==
    (pc = "return" /\ ~useLastCode /\ Inside(a, bounds) /\ Inside(b, bounds)) =>
        /\ clip.returned /\ clip.steps = 0
        /\ clip.ret = <<a, b>>
        /\ clip.fresh = <<FALSE, FALSE>>
        /\ \A rnd \in BOOLEAN :
               clipSegment(Pt(1, 1), Pt(2, 2), Box10, FALSE, rnd, _lastCode).out.ret
                   = <<Pt(1, 1), Pt(2, 2)>>

\* C11 witness: a trivial accept with round set of a segment whose two endpoints
\* have a coordinate that is not an integer, one of them on the boundary
C11_Witness ==
    /\ pc = "return" /\ ~useLastCode /\ round
    /\ Inside(a, bounds) /\ Inside(b, bounds)
    /\ HasFraction(a) /\ HasFraction(b) /\ a # b
    /\ a[1] = bounds.max[1]

\* C12 as stated in the specification: every call of clipSegment returns, after
\* at most 4 edge intersections, whatever the segment, the bounds (min <= max,
\* integer or not), round and useLastCode are.
C12_TerminatesWithin4 ==
    pc = "return" => (clip.returned /\ clip.steps <= 4)

\* C35 as stated in the specification: whenever clipSegment computes an
\* intersection with the top or bottom edge the current segment has b.y # a.y,
\* and with the left or right edge b.x # a.x, on every iteration and with
\* useLastCode set or unset: no divisor of an edge intersection is zero.
C35_NoDivisionByZero ==
    [][(pc = "call" /\ pc' = "return") =>
           \A d \in clipSegmentDivisors(a, b, bounds, useLastCode', round', _lastCode) :
               d # Num(0)]_vars

\* the OutCode of p as the specification defines it: bit0 left, bit1 right,
\* bit2 bottom, bit3 top, each set iff p violates that side of bnds
OutCode(p, bnds) ==
      (IF RLt(p[1], bnds.min[1]) THEN 1 ELSE 0)
    + (IF RGt(p[1], bnds.max[1]) THEN 2 ELSE 0)
    + (IF RLt(p[2], bnds.min[2]) THEN 4 ELSE 0)
    + (IF RGt(p[2], bnds.max[2]) THEN 8 ELSE 0)

\* C13: after every call of clipSegment, returned or not, with any useLastCode
\* and round, _lastCode is the OutCode of the argument b of that call against
\* the argument bounds of that call, not the code of a point that replaced b.
C13_CacheIsCodeOfB ==
    pc = "return" => _lastCode = OutCode(b, bounds)

\* C13 witness: a call with useLastCode set returned a pair whose second point
\* is a clipped replacement of b; the cache holds the code of b, not 0
C13_Witness ==
    /\ pc = "return" /\ useLastCode /\ clip.returned /\ clip.ret # <<>>
    /\ clip.fresh[2] /\ clip.ret[2] # b
    /\ _lastCode # 0 /\ _lastCode = OutCode(b, bounds)

\* C14 as stated in the specification: a call with useLastCode set while no
\* earlier call has assigned _lastCode returns what the same call with
\* useLastCode unset returns.
C14_UnprimedCacheIsIgnored ==
    [][(pc = "call" /\ _lastCode = NoCode /\ pc' = "return" /\ useLastCode') =>
           clip' = clipSegment(a, b, bounds, FALSE, round', _lastCode).out]_vars

\* C15: in a chain of segments clipped one call after the other by the same
\* bounds, each a being the b of the call before, a call with useLastCode set
\* returns what the same call with useLastCode unset returns. (The calls
\* concerned are those that have a call before them in the chain; a first call
\* with useLastCode set is the subject of C14.)
C15_ChainedCallsAgree ==
    [][(pc = "call" /\ cont /\ pc' = "return" /\ useLastCode') =>
           clip' = clipSegment(a, b, bounds, FALSE, round', NoCode).out]_vars

\* C15 witness: the third call of a chain, with useLastCode set, clipped both
\* endpoints; a was outside bounds, so its cached code was not 0
C15_Witness ==
    /\ pc = "return" /\ cont /\ useLastCode
    /\ clip.returned /\ clip.ret # <<>> /\ clip.fresh = <<TRUE, TRUE>>
    /\ OutCode(a, bounds) # 0 /\ OutCode(b, bounds) # 0

\* C16 as stated in the specification: when the calls for two polylines are
\* made in turns, a call that continues its polyline finds in _lastCode the
\* code of the previous endpoint of that polyline, and with useLastCode set it
\* returns what it returns when the polyline is clipped alone (the result of
\* the call with useLastCode unset, by C15).
C16_CachePerChain ==
    [][(pc = "call" /\ cont /\ pc' = "return" /\ useLastCode') =>
           /\ _lastCode = OutCode(a, bounds)
           /\ clip' = clipSegment(a, b, bounds, FALSE, round', NoCode).out]_vars

C19_OutCode ==
    /\ \A p \in {a, b} \ {Undefined} :
           LET code == _getBitCode(p, bounds)
           IN  /\ code = OutCode(p, bounds)
               /\ code \in {0, 1, 2, 4, 8, 1 + 4, 1 + 8, 2 + 4, 2 + 8}
               /\ Inside(p, bounds) <=> code = 0
    /\ pc = "return" => _lastCode = OutCode(b, bounds)
    /\ _getBitCode(Pt(-1, 5), Box10) = 1
    /\ _getBitCode(Pt(11, 11), Box10) = 2 + 8

\* C19 witness: a call in which a was right of and above bounds (code 2 + 8) and
\* b was the corner max of bounds, on the boundary (code 0)
C19_Witness ==
    /\ pc = "return" /\ bounds.min # bounds.max
    /\ OutCode(a, bounds) = 2 + 8
    /\ b = bounds.max /\ _lastCode = 0

\* ------------------------------- claims about closestPointOnSegment
\* the dot product (p - o) . (q - o)
Dot(o, p, q) ==
    RAdd(RMul(RSub(p[1], o[1]), RSub(q[1], o[1])),
         RMul(RSub(p[2], o[2]), RSub(q[2], o[2])))

\* the parameter t of the projection of p onto the line through pa and pb, pa # pb
ProjParam(p, pa, pb) == RDiv(Dot(pa, p, pb), Dot(pa, pb, pb))

\* the points pa + (k / 8)(pb - pa) of the segment pa-pb, k = 0..8
SegmentSamples(pa, pb) == {At(pa, pb, Norm(k, 8)) : k \in 0..8}

\* C20: closestPointOnSegment(p, a, b) returns the point of the segment a-b
\* nearest to p: with t the projection parameter of p onto the line a-b (a # b)
\* it is a for t <= 0, b for t >= 1 and a + t(b - a) otherwise; the point lies
\* on the segment, and neither an endpoint nor any other point of the segment
\* is closer to p ((0,5) and the segment (0,0)-(10,0) give (0,0)).
C20_ClosestPoint ==
    /\ query.fn = "closestPointOnSegment" =>
           LET p  == query.args[1]
               pa == query.args[2]
               pb == query.args[3]
               r  == query.result
               t  == ProjParam(p, pa, pb)
           IN  /\ pa # pb =>
                      r = IF RLe(t, Num(0)) THEN pa
                          ELSE IF RLe(Num(1), t) THEN pb
                          ELSE At(pa, pb, t)
               /\ OnSegment(r, pa, pb)
               /\ RLe(_sqDist(p, r), _sqDist(p, pa))
               /\ RLe(_sqDist(p, r), _sqDist(p, pb))
               /\ \A q \in SegmentSamples(pa, pb) : RLe(_sqDist(p, r), _sqDist(p, q))
    /\ closestPointOnSegment(Pt(0, 5), Pt(0, 0), Pt(10, 0)) = Pt(0, 0)

\* C20 witness: p is not on the line a-b and its projection falls strictly
\* inside the segment, at a point with a coordinate that is not an integer
C20_Witness ==
    /\ query.fn = "closestPointOnSegment"
    /\ query.args[2] # query.args[3]
    /\ Cross(query.args[2], query.args[3], query.args[1]) # Num(0)
    /\ HasFraction(query.result)
    /\ query.result = At(query.args[2], query.args[3],
                         ProjParam(query.args[1], query.args[2], query.args[3]))

\* the square of a value of MathSqrt
SquareOf(r) == IF Len(r) = 3 THEN Norm(r[1], r[2]) ELSE RMul(r, r)

\* C21: for a segment with a = b, closestPointOnSegment(p, a, b) returns a and
\* pointToSegmentDistance(p, a, b) is the distance from p to a (its square is
\* the sum of the squares of the coordinate differences, and it is not
\* negative); the function divides by nothing then, so not by the zero square
\* length of the segment.
C21_DegenerateSegment ==
    (query.fn \in {"closestPointOnSegment", "pointToSegmentDistance"}
         /\ query.args[2] = query.args[3]) =>
        LET p  == query.args[1]
            pa == query.args[2]
            dx == RSub(p[1], pa[1])
            dy == RSub(p[2], pa[2])
        IN  /\ query.fn = "closestPointOnSegment" => query.result = pa
            /\ query.fn = "pointToSegmentDistance" =>
                   /\ SquareOf(query.result) = RAdd(RMul(dx, dx), RMul(dy, dy))
                   /\ RLe(Num(0), <<query.result[1], query.result[2]>>)
            /\ _sqClosestPointOnSegment_Divisors(pa, query.args[3]) = {}

\* C21 witness: pointToSegmentDistance was called with a = b and p at the
\* distance 2 from a
C21_Witness ==
    /\ query.fn = "pointToSegmentDistance"
    /\ query.args[2] = query.args[3] /\ query.args[1] # query.args[2]
    /\ query.result = Num(2)

\* ------------------------------------------- claims about polylineCenter
\* a single ring: an array (empty or not) of LatLng objects or of arrays of
\* two numbers; a set of rings: an array whose first element is a single ring
IsPoint(v) ==
    \/ v.type = "LatLng"
    \/ v.type = "Array" /\ Len(v.val) = 2 /\ \A i \in 1..2 : v.val[i].type = "number"
IsSingleRing(v) == v.type = "Array" /\ \A i \in DOMAIN v.val : IsPoint(v.val[i])
IsMultiRing(v) == v.type = "Array" /\ Len(v.val) > 0 /\ IsSingleRing(v.val[1])

\* C22: polylineCenter throws its error ('latlngs not passed') and returns no
\* value whenever latlngs is absent (null or undefined) or an empty array; it
\* has then called neither crs.project nor crs.unproject, emitted no warning
\* and changed nothing: _lastCode, the caller's arrays and the last results of
\* the other functions are as before the call.
C22_ThrowsOnAbsentOrEmpty ==
    [][(query.fn = "none" /\ query'.fn = "polylineCenter"
            /\ query.args[1] \in {Undef, Null, Arr(<<>>)}) =>
           /\ query'.result.threw
           /\ query'.result.error = "latlngs not passed"
           /\ query'.result.value = Undefined
           /\ query'.result.crsCalls = 0
           /\ query'.result.warnings = 0
           /\ query'.args = query.args
           /\ UNCHANGED <<simplifyVars, clipVars, uiVars>>
      ]_vars

\* C22 witness: polylineCenter threw on an empty array, after clipSegment had
\* left a code in _lastCode and simplify had returned
C22_Witness ==
    /\ query.fn = "polylineCenter" /\ query.args[1] = Arr(<<>>)
    /\ query.result.threw
    /\ _lastCode \notin {NoCode, 0} /\ op = "simplify"

\* C23: polylineCenter throws its error ('latlngs not passed') for every input
\* whose ring to process has no point: the empty array, and rings whose first
\* ring is empty; it never goes on to return a center computed from no point.
C23_ThrowsOnEveryEmptyRing ==
    (query.fn = "polylineCenter"
         /\ (query.args[1] = Arr(<<>>) \/ EmptyFirstRing(query.args[1]))) =>
        /\ query.result.threw
        /\ query.result.error = "latlngs not passed"

\* C24: for rings whose first ring is not empty polylineCenter throws nothing,
\* calls console.warn exactly once and returns the center it returns for the
\* first ring alone; for a single ring it calls console.warn not at all.
C24_FirstRingWithWarning ==
    query.fn = "polylineCenter" =>
        /\ (IsMultiRing(query.args[1]) /\ query.args[1].val[1].val # <<>>) =>
               LET alone == polylineCenter(query.args[1].val[1], query.args[2])
               IN  /\ ~query.result.threw
                   /\ query.result.warnings = 1
                   /\ ~alone.threw
                   /\ query.result.value = alone.value
        /\ (IsSingleRing(query.args[1]) /\ query.args[1].val # <<>>) =>
               ~query.result.threw /\ query.result.warnings = 0

\* C24 witness: rings whose first ring is an array of three [lat, lng] arrays
\* got the center of that ring, which is none of its points, with one warning
C24_Witness ==
    /\ query.fn = "polylineCenter" /\ IsMultiRing(query.args[1])
    /\ Len(query.args[1].val[1].val) = 3
    /\ query.args[1].val[1].val[1].type = "Array"
    /\ query.result.warnings = 1
    /\ IsFinite(query.result.value[1]) /\ IsFinite(query.result.value[2])
    /\ \A i \in 1..3 : query.result.value # ToLatLng(query.args[1].val[1].val[i])

\* the length of the path through the first i points of pts
RECURSIVE PathLength(_, _)
PathLength(pts, i) ==
    IF i <= 1 THEN Num(0)
    ELSE RAdd(PathLength(pts, i - 1), MathSqrt(_sqDist(pts[i - 1], pts[i])))

\* polylineCenter returned for a single ring whose projected length is positive
CenterOfPositiveLength ==
    /\ query.fn = "polylineCenter"
    /\ IsSingleRing(query.args[1]) /\ query.args[1].val # <<>>
    /\ RGt(PathLength(query.result.points, Len(query.result.points)), Num(0))

\* C25: for every single ring whose projected length is positive the walk of
\* polylineCenter assigns the center; the center lies on a segment of the
\* projected polyline, and the length of the path from the first point to it
\* is exactly half the length of the polyline. For three points with two
\* segments of the same length the center is the point of index 1.
C25_CenterAtHalfLength ==
    CenterOfPositiveLength =>
        LET pts == query.result.points
            c   == query.result.center
            n   == Len(pts)
        IN  /\ c # Undefined
            /\ \E i \in 1..(n - 1) :
                   /\ OnSegment(c, pts[i], pts[i + 1])
                   /\ RMul(Num(2), RAdd(PathLength(pts, i), MathSqrt(_sqDist(pts[i], c))))
                          = PathLength(pts, n)
            /\ (n = 3 /\ _sqDist(pts[1], pts[2]) = _sqDist(pts[2], pts[3])) => c = pts[2]

\* C25 witness: three points, a first segment shorter than the second one and
\* not on a line with it; the center lies inside the second segment
C25_Witness ==
    /\ CenterOfPositiveLength
    /\ Len(query.result.points) = 3
    /\ RLt(Num(0), _sqDist(query.result.points[1], query.result.points[2]))
    /\ RLt(_sqDist(query.result.points[1], query.result.points[2]),
           _sqDist(query.result.points[2], query.result.points[3]))
    /\ Cross(query.result.points[1], query.result.points[2], query.result.points[3]) # Num(0)
    /\ query.result.center \notin Range(query.result.points)
    /\ OnSegment(query.result.center, query.result.points[2], query.result.points[3])

RingUsed(latlngs) == IF IsSingleRing(latlngs) THEN latlngs ELSE latlngs.val[1]

\* polylineCenter returned for a ring, or the first of several rings, with points
CenterOfRing ==
    /\ query.fn = "polylineCenter" /\ ~query.result.threw
    /\ IsSingleRing(query.args[1]) \/ IsMultiRing(query.args[1])
    /\ RingUsed(query.args[1]).val # <<>>

\* the points of the ring polylineCenter works on, as pairs <<lat, lng>>
RingPoints == [i \in DOMAIN RingUsed(query.args[1]).val |-> ToLatLng(RingUsed(query.args[1]).val[i])]

\* C36: in polylineCenter the shift origin is the local centroid exactly when
\* the bounding-box area estimate is strictly below 1700 and (0, 0) otherwise;
\* every point is projected after subtracting that origin, and the LatLng
\* returned is the unprojected midpoint plus that same origin.
C36_ShiftOrigin ==
    CenterOfRing =>
        LET lls    == RingPoints
            crs    == query.args[2]
            origin == IF RLt(_areaBounds(lls), Num(1700)) THEN centroid(lls)
                      ELSE <<Num(0), Num(0)>>
            back   == unproject(crs, query.result.center)
        IN  /\ query.result.points =
                   [i \in DOMAIN lls |->
                        project(crs, <<RSub(lls[i][1], origin[1]), RSub(lls[i][2], origin[2])>>)]
            /\ query.result.value = <<RAdd(back[1], origin[1]), RAdd(back[2], origin[2])>>

\* C36 witness: the area estimate of a ring of three points is exactly 1700 and
\* its centroid is not (0, 0); the points were projected as they are, and the
\* center is none of them
C36_Witness ==
    /\ CenterOfRing /\ Len(RingPoints) = 3
    /\ _areaBounds(RingPoints) = Num(1700)
    /\ centroid(RingPoints) # <<Num(0), Num(0)>>
    /\ query.result.points = [i \in 1..3 |-> project(query.args[2], RingPoints[i])]
    /\ query.result.center \notin Range(query.result.points)

\* C27: isFlat returns true for a single ring (an array of LatLng objects or
\* of [lat, lng] arrays of numbers, the empty array included) and false for a
\* set of rings (an array whose first element is an array of points or an
\* empty array).
C27_IsFlat ==
    query.fn = "isFlat" =>
        /\ IsSingleRing(query.args[1]) => query.result = TRUE
        /\ IsMultiRing(query.args[1]) => query.result = FALSE
        /\ IsSingleRing(query.args[1]) \/ IsMultiRing(query.args[1])

\* C27 witness: isFlat returned true for an array of two [lat, lng] arrays,
\* whose first element is an array too
C27_Witness ==
    /\ query.fn = "isFlat" /\ query.result = TRUE
    /\ Len(query.args[1].val) = 2
    /\ query.args[1].val[1].type = "Array"

\* --------------------------------- claims about Handler and ScrollWheelZoom
\* the hook called last is addHooks
LastHookIsAdd == hooks # <<>> /\ hooks[Len(hooks)] = "addHooks"

\* C28: for every sequence of enable() and disable() calls, addHooks is called
\* only when the handler goes from disabled to enabled and removeHooks only
\* when it goes from enabled to disabled; the calls of the two hooks alternate,
\* the first being addHooks; enable() on an enabled handler and disable() on a
\* disabled one change nothing; enabled() is true exactly when the hook called
\* last was addHooks.
C28_HooksAlternate ==
    [][/\ hooks' # hooks =>
              /\ hooks' = Append(hooks, hooks'[Len(hooks')])
              /\ LastHookIsAdd' <=> (~enabled /\ enabled' /\ lastCall' = "enable")
              /\ ~LastHookIsAdd' <=> (enabled /\ ~enabled' /\ lastCall' = "disable")
       /\ hooks' = hooks => _enabled' = _enabled \/ ~(enabled \/ enabled')
       /\ \A i \in DOMAIN hooks' :
              hooks'[i] = IF i % 2 = 1 THEN "addHooks" ELSE "removeHooks"
       /\ ((lastCall' = "enable" /\ enabled) \/ (lastCall' = "disable" /\ ~enabled)) =>
              UNCHANGED <<_enabled, hooks, listening, _delta, _startTime, _timer, timers>>
       /\ enabled' <=> LastHookIsAdd'
      ]_vars

\* C28 witness: enable() was called on a handler that had been enabled,
\* disabled and enabled again and had got a wheel event since; it called no hook
C28_Witness ==
    /\ lastCall = "enable" /\ wheelSeen
    /\ hooks = <<"addHooks", "removeHooks", "addHooks">> /\ enabled

\* C30: wheel zooming is rate-limited. For every sequence of wheel events and
\* of enable and disable calls, two runs of _performZoom are at least
\* wheelDebounceTime apart; at most one timeout of the handler is pending;
\* while the hooks are removed none is pending, and _performZoom runs only
\* with the hooks added and after a wheel event that came after addHooks.
C30_WheelZoomRateLimited ==
    [][/\ \A i \in 1..(Len(performed') - 1) :
              performed'[i + 1] - performed'[i] >= wheelDebounceTime
       /\ Cardinality(DOMAIN timers') <= 1
       /\ ~listening' => timers' = <<>>
       /\ performed' # performed => listening /\ wheelSeen /\ enabled
      ]_vars

\* C30 witness: on a handler that was enabled, disabled and enabled again
\* _performZoom has run twice, the second time exactly wheelDebounceTime after
\* the first
C30_Witness ==
    /\ Len(performed) = 2 /\ performed[2] - performed[1] = wheelDebounceTime
    /\ Len(hooks) = 3 /\ lastCall = "_performZoom"

C37_AutopanGuard ==
    (autoPan /\ keepInView) =>
        /\ ~overrun /\ Len(runs) <= 3
        /\ \A i \in DOMAIN runs :
               /\ runs[i].cause = "own" =>
                      (runs[i].flag /\ ~runs[i].panned /\ ~runs[i].after)
               /\ runs[i].cause = "foreign" =>
                      (~runs[i].flag /\ (runs[i].panned <=> runs[i].need))
        /\ (opened /\ _autopanning) => _panAnim

\* C37 witness: the map was resized while the popup's pan was in progress; the
\* run for that moveend stopped the pan, whose moveend was answered by a nested
\* run that cleared the flag without panning, and then panned itself
C37_Witness ==
    /\ autoPan /\ keepInView /\ opened
    /\ Len(runs) = 2
    /\ runs[1].cause = "own" /\ runs[1].flag /\ runs[1].need /\ ~runs[1].panned
    /\ runs[2].cause = "foreign" /\ runs[2].panned
    /\ _autopanning /\ _panAnim

\* the layers met by following next from `k`, at most `fuel` of them
RECURSIVE Walk(_, _, _)
Walk(order, k, fuel) ==
    IF k = NoLayer \/ fuel = 0 THEN <<>>
    ELSE IF k \notin DOMAIN order THEN <<k>>
    ELSE <<k>> \o Walk(order, order[k].next, fuel - 1)

\* the draw order, first to last
DrawList == Walk(_order, _drawFirst, NLayers + 1)

Without(list, layer) == SelectSeq(list, LAMBDA k : k # layer)

WellFormedList ==
    /\ DOMAIN _order = _layers
    /\ Len(DrawList) = Cardinality(_layers)
    /\ {DrawList[i] : i \in DOMAIN DrawList} = _layers
    /\ (_drawFirst = NoLayer) <=> (_layers = {})
    /\ (_drawLast = NoLayer) <=> (_layers = {})
    /\ _layers # {} =>
           /\ DrawList[Len(DrawList)] = _drawLast
           /\ _order[_drawFirst].prev = NoLayer
           /\ _order[_drawLast].next = NoLayer
    /\ \A i \in 1..(Len(DrawList) - 1) :
           /\ _order[DrawList[i]].next = DrawList[i + 1]
           /\ _order[DrawList[i + 1]].prev = DrawList[i]

C39_OneFramePending ==
    /\ Cardinality(frames) <= 1
    /\ (_redrawRequest # NoFrame) <=> (frames # {})

\* ------------------------------------------- claims about the module state
\* every value _lastCode can hold
AllCodes == {NoCode} \cup {cx + cy : cx \in {0, 1, 2}, cy \in {0, 4, 8}}

\* the result of the query function fn for the arguments args
QueryResult(fn, args) ==
    CASE fn = "closestPointOnSegment" -> closestPointOnSegment(args[1], args[2], args[3])
      [] fn = "pointToSegmentDistance" -> pointToSegmentDistance(args[1], args[2], args[3])
      [] fn = "isFlat" -> isFlat(args[1])
      [] fn = "polylineCenter" -> polylineCenter(args[1], args[2])

\* C17: _lastCode is the only state of the module that a call leaves behind. A
\* call of simplify, closestPointOnSegment, pointToSegmentDistance, isFlat or
\* polylineCenter leaves _lastCode as it was and returns what the function
\* gives for its arguments alone, whatever was called before; so does a call
\* of clipSegment with useLastCode unset, whatever _lastCode holds.
C17_OnlyLastCodeSurvives ==
    [][/\ (op' # op \/ query' # query) => _lastCode' = _lastCode
       /\ (op = "none" /\ op' = "simplify") =>
              LET alone == simplify(<<heap[points]>>, 1, tolerance)
              IN  heap'[ret'] = alone.heap[alone.ret]
       /\ (query.fn = "none" /\ query'.fn # "none") =>
              query'.result = QueryResult(query'.fn, query.args)
       /\ (pc = "call" /\ pc' = "return" /\ ~useLastCode') =>
              \A c \in AllCodes : clip' = clipSegment(a, b, bounds, FALSE, round', c).out
      ]_vars

\* C17 witness: after a chain of clipSegment calls has left a code other than 0
\* in _lastCode, simplify and polylineCenter have been called and returned,
\* and the last clipSegment call, with useLastCode unset, clipped a
C17_Witness ==
    /\ pc = "return" /\ cont /\ ~useLastCode /\ _lastCode \notin {NoCode, 0}
    /\ clip.returned /\ clip.ret # <<>> /\ clip.fresh[1]
    /\ op = "simplify" /\ Len(Out) < Len(In)
    /\ query.fn = "polylineCenter" /\ ~query.result.threw

====
